---------------------------- MODULE Spec2Model ----------------------------
(***************************************************************************)
(* A model of the NES emulator core of ComputerScienceFromScratch:         *)
(* NESEmulator/cpu.py (the 6502 CPU and its bus), NESEmulator/ppu.py (the  *)
(* PPU register interface), NESEmulator/rom.py (the mapper-0 cartridge)    *)
(* and NESEmulator/__main__.py (the drive loop); and of the MacPaint       *)
(* run-length encoder of RetroDither/macpaint.py.                          *)
(*                                                                         *)
(* Python's byte arrays (CPU RAM, OAM, PRG-RAM, PRG-ROM) are modelled as   *)
(* functions whose domain holds the indices of the non-zero cells: every   *)
(* other cell of the array is 0.  Python integers are unbounded, and so    *)
(* are the model's: `x & 0xFF` is x % 256 and `x >> n` is x \div 2^n, both *)
(* with Python's floor semantics on negative numbers.                      *)
(***************************************************************************)
EXTENDS Integers, Sequences, FiniteSets, TLC

Byte == 0..255

(* ------------------------------ bit helpers ---------------------------- *)

\* bit n of x, as (x >> n) & 1
Bit(x, n) == (x \div (2^n)) % 2

\* bool(x): a Python int used as a truth value
BoolOf(x) == x # 0

\* a Python bool used as an int
IntOf(b) == IF b THEN 1 ELSE 0

RECURSIVE BitwiseRec(_, _, _, _)
BitwiseRec(op, a, b, n) ==
    IF n = 0 THEN 0
    ELSE LET x == a % 2
             y == b % 2
             r == CASE op = "and" -> x * y
                    [] op = "or"  -> IF x + y > 0 THEN 1 ELSE 0
                    [] op = "xor" -> (x + y) % 2
         IN  r + 2 * BitwiseRec(op, a \div 2, b \div 2, n - 1)

\* a & b, a | b, a ^ b on the low 8 bits of the operands
And8(a, b) == BitwiseRec("and", a, b, 8)
Or8(a, b)  == BitwiseRec("or", a, b, 8)
Xor8(a, b) == BitwiseRec("xor", a, b, 8)

(* ---------------------------- zero-default arrays ---------------------- *)

EmptyArr == [k \in {} |-> 0]

ArrGet(arr, i) == IF i \in DOMAIN arr THEN arr[i] ELSE 0

ArrSet(arr, i, v) ==
    IF v = 0 THEN [k \in (DOMAIN arr) \ {i} |-> arr[k]]
    ELSE [k \in (DOMAIN arr) \cup {i} |-> IF k = i THEN v ELSE arr[k]]

(* ------------------------------ constants ------------------------------ *)

STACK_POINTER_RESET == 253
STACK_START == 256
RESET_VECTOR == 65532
NMI_VECTOR == 65530
IRQ_BRK_VECTOR == 65534
MEM_SIZE == 2048
SPR_RAM_SIZE == 256
PRG_ROM_BASE_UNIT_SIZE == 16384
PRG_RAM_SIZE == 8192
DMA_STALL == 512

\* Python's None, which PPU.read_register and PPU.read_memory return when
\* they fall off their end; no byte has this value
None == -1

(* --------------------------- instruction table ------------------------- *)

\* Instructions[opcode + 1] = <<type, mode, length, ticks, page_ticks>>
Instructions == <<
    <<"BRK","IMPLIED",1,7,0>>, <<"ORA","INDEXED_INDIRECT",2,6,0>>, <<"KIL","IMPLIED",0,2,0>>, <<"SLO","INDEXED_INDIRECT",0,8,0>>,  \* 00
    <<"NOP","ZEROPAGE",2,3,0>>, <<"ORA","ZEROPAGE",2,3,0>>, <<"ASL","ZEROPAGE",2,5,0>>, <<"SLO","ZEROPAGE",0,5,0>>,  \* 04
    <<"PHP","IMPLIED",1,3,0>>, <<"ORA","IMMEDIATE",2,2,0>>, <<"ASL","ACCUMULATOR",1,2,0>>, <<"ANC","IMMEDIATE",0,2,0>>,  \* 08
    <<"NOP","ABSOLUTE",3,4,0>>, <<"ORA","ABSOLUTE",3,4,0>>, <<"ASL","ABSOLUTE",3,6,0>>, <<"SLO","ABSOLUTE",0,6,0>>,  \* 0C
    <<"BPL","RELATIVE",2,2,1>>, <<"ORA","INDIRECT_INDEXED",2,5,1>>, <<"KIL","IMPLIED",0,2,0>>, <<"SLO","INDIRECT_INDEXED",0,8,0>>,  \* 10
    <<"NOP","ZEROPAGE_X",2,4,0>>, <<"ORA","ZEROPAGE_X",2,4,0>>, <<"ASL","ZEROPAGE_X",2,6,0>>, <<"SLO","ZEROPAGE_X",0,6,0>>,  \* 14
    <<"CLC","IMPLIED",1,2,0>>, <<"ORA","ABSOLUTE_Y",3,4,1>>, <<"NOP","IMPLIED",1,2,0>>, <<"SLO","ABSOLUTE_Y",0,7,0>>,  \* 18
    <<"NOP","ABSOLUTE_X",3,4,1>>, <<"ORA","ABSOLUTE_X",3,4,1>>, <<"ASL","ABSOLUTE_X",3,7,0>>, <<"SLO","ABSOLUTE_X",0,7,0>>,  \* 1C
    <<"JSR","ABSOLUTE",3,6,0>>, <<"AND","INDEXED_INDIRECT",2,6,0>>, <<"KIL","IMPLIED",0,2,0>>, <<"RLA","INDEXED_INDIRECT",0,8,0>>,  \* 20
    <<"BIT","ZEROPAGE",2,3,0>>, <<"AND","ZEROPAGE",2,3,0>>, <<"ROL","ZEROPAGE",2,5,0>>, <<"RLA","ZEROPAGE",0,5,0>>,  \* 24
    <<"PLP","IMPLIED",1,4,0>>, <<"AND","IMMEDIATE",2,2,0>>, <<"ROL","ACCUMULATOR",1,2,0>>, <<"ANC","IMMEDIATE",0,2,0>>,  \* 28
    <<"BIT","ABSOLUTE",3,4,0>>, <<"AND","ABSOLUTE",3,4,0>>, <<"ROL","ABSOLUTE",3,6,0>>, <<"RLA","ABSOLUTE",0,6,0>>,  \* 2C
    <<"BMI","RELATIVE",2,2,1>>, <<"AND","INDIRECT_INDEXED",2,5,1>>, <<"KIL","IMPLIED",0,2,0>>, <<"RLA","INDIRECT_INDEXED",0,8,0>>,  \* 30
    <<"NOP","ZEROPAGE_X",2,4,0>>, <<"AND","ZEROPAGE_X",2,4,0>>, <<"ROL","ZEROPAGE_X",2,6,0>>, <<"RLA","ZEROPAGE_X",0,6,0>>,  \* 34
    <<"SEC","IMPLIED",1,2,0>>, <<"AND","ABSOLUTE_Y",3,4,1>>, <<"NOP","IMPLIED",1,2,0>>, <<"RLA","ABSOLUTE_Y",0,7,0>>,  \* 38
    <<"NOP","ABSOLUTE_X",3,4,1>>, <<"AND","ABSOLUTE_X",3,4,1>>, <<"ROL","ABSOLUTE_X",3,7,0>>, <<"RLA","ABSOLUTE_X",0,7,0>>,  \* 3C
    <<"RTI","IMPLIED",1,6,0>>, <<"EOR","INDEXED_INDIRECT",2,6,0>>, <<"KIL","IMPLIED",0,2,0>>, <<"SRE","INDEXED_INDIRECT",0,8,0>>,  \* 40
    <<"NOP","ZEROPAGE",2,3,0>>, <<"EOR","ZEROPAGE",2,3,0>>, <<"LSR","ZEROPAGE",2,5,0>>, <<"SRE","ZEROPAGE",0,5,0>>,  \* 44
    <<"PHA","IMPLIED",1,3,0>>, <<"EOR","IMMEDIATE",2,2,0>>, <<"LSR","ACCUMULATOR",1,2,0>>, <<"ALR","IMMEDIATE",0,2,0>>,  \* 48
    <<"JMP","ABSOLUTE",3,3,0>>, <<"EOR","ABSOLUTE",3,4,0>>, <<"LSR","ABSOLUTE",3,6,0>>, <<"SRE","ABSOLUTE",0,6,0>>,  \* 4C
    <<"BVC","RELATIVE",2,2,1>>, <<"EOR","INDIRECT_INDEXED",2,5,1>>, <<"KIL","IMPLIED",0,2,0>>, <<"SRE","INDIRECT_INDEXED",0,8,0>>,  \* 50
    <<"NOP","ZEROPAGE_X",2,4,0>>, <<"EOR","ZEROPAGE_X",2,4,0>>, <<"LSR","ZEROPAGE_X",2,6,0>>, <<"SRE","ZEROPAGE_X",0,6,0>>,  \* 54
    <<"CLI","IMPLIED",1,2,0>>, <<"EOR","ABSOLUTE_Y",3,4,1>>, <<"NOP","IMPLIED",1,2,0>>, <<"SRE","ABSOLUTE_Y",0,7,0>>,  \* 58
    <<"NOP","ABSOLUTE_X",3,4,1>>, <<"EOR","ABSOLUTE_X",3,4,1>>, <<"LSR","ABSOLUTE_X",3,7,0>>, <<"SRE","ABSOLUTE_X",0,7,0>>,  \* 5C
    <<"RTS","IMPLIED",1,6,0>>, <<"ADC","INDEXED_INDIRECT",2,6,0>>, <<"KIL","IMPLIED",0,2,0>>, <<"RRA","INDEXED_INDIRECT",0,8,0>>,  \* 60
    <<"NOP","ZEROPAGE",2,3,0>>, <<"ADC","ZEROPAGE",2,3,0>>, <<"ROR","ZEROPAGE",2,5,0>>, <<"RRA","ZEROPAGE",0,5,0>>,  \* 64
    <<"PLA","IMPLIED",1,4,0>>, <<"ADC","IMMEDIATE",2,2,0>>, <<"ROR","ACCUMULATOR",1,2,0>>, <<"ARR","IMMEDIATE",0,2,0>>,  \* 68
    <<"JMP","INDIRECT",3,5,0>>, <<"ADC","ABSOLUTE",3,4,0>>, <<"ROR","ABSOLUTE",3,6,0>>, <<"RRA","ABSOLUTE",0,6,0>>,  \* 6C
    <<"BVS","RELATIVE",2,2,1>>, <<"ADC","INDIRECT_INDEXED",2,5,1>>, <<"KIL","IMPLIED",0,2,0>>, <<"RRA","INDIRECT_INDEXED",0,8,0>>,  \* 70
    <<"NOP","ZEROPAGE_X",2,4,0>>, <<"ADC","ZEROPAGE_X",2,4,0>>, <<"ROR","ZEROPAGE_X",2,6,0>>, <<"RRA","ZEROPAGE_X",0,6,0>>,  \* 74
    <<"SEI","IMPLIED",1,2,0>>, <<"ADC","ABSOLUTE_Y",3,4,1>>, <<"NOP","IMPLIED",1,2,0>>, <<"RRA","ABSOLUTE_Y",0,7,0>>,  \* 78
    <<"NOP","ABSOLUTE_X",3,4,1>>, <<"ADC","ABSOLUTE_X",3,4,1>>, <<"ROR","ABSOLUTE_X",3,7,0>>, <<"RRA","ABSOLUTE_X",0,7,0>>,  \* 7C
    <<"NOP","IMMEDIATE",2,2,0>>, <<"STA","INDEXED_INDIRECT",2,6,0>>, <<"NOP","IMMEDIATE",0,2,0>>, <<"SAX","INDEXED_INDIRECT",0,6,0>>,  \* 80
    <<"STY","ZEROPAGE",2,3,0>>, <<"STA","ZEROPAGE",2,3,0>>, <<"STX","ZEROPAGE",2,3,0>>, <<"SAX","ZEROPAGE",0,3,0>>,  \* 84
    <<"DEY","IMPLIED",1,2,0>>, <<"NOP","IMMEDIATE",0,2,0>>, <<"TXA","IMPLIED",1,2,0>>, <<"XAA","IMMEDIATE",0,2,0>>,  \* 88
    <<"STY","ABSOLUTE",3,4,0>>, <<"STA","ABSOLUTE",3,4,0>>, <<"STX","ABSOLUTE",3,4,0>>, <<"SAX","ABSOLUTE",0,4,0>>,  \* 8C
    <<"BCC","RELATIVE",2,2,1>>, <<"STA","INDIRECT_INDEXED",2,6,0>>, <<"KIL","IMPLIED",0,2,0>>, <<"AHX","INDIRECT_INDEXED",0,6,0>>,  \* 90
    <<"STY","ZEROPAGE_X",2,4,0>>, <<"STA","ZEROPAGE_X",2,4,0>>, <<"STX","ZEROPAGE_Y",2,4,0>>, <<"SAX","ZEROPAGE_Y",0,4,0>>,  \* 94
    <<"TYA","IMPLIED",1,2,0>>, <<"STA","ABSOLUTE_Y",3,5,0>>, <<"TXS","IMPLIED",1,2,0>>, <<"TAS","ABSOLUTE_Y",0,5,0>>,  \* 98
    <<"SHY","ABSOLUTE_X",0,5,0>>, <<"STA","ABSOLUTE_X",3,5,0>>, <<"SHX","ABSOLUTE_Y",0,5,0>>, <<"AHX","ABSOLUTE_Y",0,5,0>>,  \* 9C
    <<"LDY","IMMEDIATE",2,2,0>>, <<"LDA","INDEXED_INDIRECT",2,6,0>>, <<"LDX","IMMEDIATE",2,2,0>>, <<"LAX","INDEXED_INDIRECT",0,6,0>>,  \* A0
    <<"LDY","ZEROPAGE",2,3,0>>, <<"LDA","ZEROPAGE",2,3,0>>, <<"LDX","ZEROPAGE",2,3,0>>, <<"LAX","ZEROPAGE",0,3,0>>,  \* A4
    <<"TAY","IMPLIED",1,2,0>>, <<"LDA","IMMEDIATE",2,2,0>>, <<"TAX","IMPLIED",1,2,0>>, <<"LAX","IMMEDIATE",0,2,0>>,  \* A8
    <<"LDY","ABSOLUTE",3,4,0>>, <<"LDA","ABSOLUTE",3,4,0>>, <<"LDX","ABSOLUTE",3,4,0>>, <<"LAX","ABSOLUTE",0,4,0>>,  \* AC
    <<"BCS","RELATIVE",2,2,1>>, <<"LDA","INDIRECT_INDEXED",2,5,1>>, <<"KIL","IMPLIED",0,2,0>>, <<"LAX","INDIRECT_INDEXED",0,5,1>>,  \* B0
    <<"LDY","ZEROPAGE_X",2,4,0>>, <<"LDA","ZEROPAGE_X",2,4,0>>, <<"LDX","ZEROPAGE_Y",2,4,0>>, <<"LAX","ZEROPAGE_Y",0,4,0>>,  \* B4
    <<"CLV","IMPLIED",1,2,0>>, <<"LDA","ABSOLUTE_Y",3,4,1>>, <<"TSX","IMPLIED",1,2,0>>, <<"LAS","ABSOLUTE_Y",0,4,1>>,  \* B8
    <<"LDY","ABSOLUTE_X",3,4,1>>, <<"LDA","ABSOLUTE_X",3,4,1>>, <<"LDX","ABSOLUTE_Y",3,4,1>>, <<"LAX","ABSOLUTE_Y",0,4,1>>,  \* BC
    <<"CPY","IMMEDIATE",2,2,0>>, <<"CMP","INDEXED_INDIRECT",2,6,0>>, <<"NOP","IMMEDIATE",0,2,0>>, <<"DCP","INDEXED_INDIRECT",0,8,0>>,  \* C0
    <<"CPY","ZEROPAGE",2,3,0>>, <<"CMP","ZEROPAGE",2,3,0>>, <<"DEC","ZEROPAGE",2,5,0>>, <<"DCP","ZEROPAGE",0,5,0>>,  \* C4
    <<"INY","IMPLIED",1,2,0>>, <<"CMP","IMMEDIATE",2,2,0>>, <<"DEX","IMPLIED",1,2,0>>, <<"AXS","IMMEDIATE",0,2,0>>,  \* C8
    <<"CPY","ABSOLUTE",3,4,0>>, <<"CMP","ABSOLUTE",3,4,0>>, <<"DEC","ABSOLUTE",3,6,0>>, <<"DCP","ABSOLUTE",0,6,0>>,  \* CC
    <<"BNE","RELATIVE",2,2,1>>, <<"CMP","INDIRECT_INDEXED",2,5,1>>, <<"KIL","IMPLIED",0,2,0>>, <<"DCP","INDIRECT_INDEXED",0,8,0>>,  \* D0
    <<"NOP","ZEROPAGE_X",2,4,0>>, <<"CMP","ZEROPAGE_X",2,4,0>>, <<"DEC","ZEROPAGE_X",2,6,0>>, <<"DCP","ZEROPAGE_X",0,6,0>>,  \* D4
    <<"CLD","IMPLIED",1,2,0>>, <<"CMP","ABSOLUTE_Y",3,4,1>>, <<"NOP","IMPLIED",1,2,0>>, <<"DCP","ABSOLUTE_Y",0,7,0>>,  \* D8
    <<"NOP","ABSOLUTE_X",3,4,1>>, <<"CMP","ABSOLUTE_X",3,4,1>>, <<"DEC","ABSOLUTE_X",3,7,0>>, <<"DCP","ABSOLUTE_X",0,7,0>>,  \* DC
    <<"CPX","IMMEDIATE",2,2,0>>, <<"SBC","INDEXED_INDIRECT",2,6,0>>, <<"NOP","IMMEDIATE",0,2,0>>, <<"ISC","INDEXED_INDIRECT",0,8,0>>,  \* E0
    <<"CPX","ZEROPAGE",2,3,0>>, <<"SBC","ZEROPAGE",2,3,0>>, <<"INC","ZEROPAGE",2,5,0>>, <<"ISC","ZEROPAGE",0,5,0>>,  \* E4
    <<"INX","IMPLIED",1,2,0>>, <<"SBC","IMMEDIATE",2,2,0>>, <<"NOP","IMPLIED",1,2,0>>, <<"SBC","IMMEDIATE",0,2,0>>,  \* E8
    <<"CPX","ABSOLUTE",3,4,0>>, <<"SBC","ABSOLUTE",3,4,0>>, <<"INC","ABSOLUTE",3,6,0>>, <<"ISC","ABSOLUTE",0,6,0>>,  \* EC
    <<"BEQ","RELATIVE",2,2,1>>, <<"SBC","INDIRECT_INDEXED",2,5,1>>, <<"KIL","IMPLIED",0,2,0>>, <<"ISC","INDIRECT_INDEXED",0,8,0>>,  \* F0
    <<"NOP","ZEROPAGE_X",2,4,0>>, <<"SBC","ZEROPAGE_X",2,4,0>>, <<"INC","ZEROPAGE_X",2,6,0>>, <<"ISC","ZEROPAGE_X",0,6,0>>,  \* F4
    <<"SED","IMPLIED",1,2,0>>, <<"SBC","ABSOLUTE_Y",3,4,1>>, <<"NOP","IMPLIED",1,2,0>>, <<"ISC","ABSOLUTE_Y",0,7,0>>,  \* F8
    <<"NOP","ABSOLUTE_X",3,4,1>>, <<"SBC","ABSOLUTE_X",3,4,1>>, <<"INC","ABSOLUTE_X",3,7,0>>, <<"ISC","ABSOLUTE_X",0,7,0>>  \* FC
>>

Instr(opcode) ==
    LET e == Instructions[opcode + 1]
    IN  [type |-> e[1], mode |-> e[2], length |-> e[3], ticks |-> e[4], page_ticks |-> e[5]]

BranchTypes == {"BCC", "BCS", "BEQ", "BMI", "BNE", "BPL", "BVC", "BVS"}

(* ------------------------------- PPU ----------------------------------- *)
(* m is the whole machine: the CPU's fields, m.ppu, m.rom, m.joypad1, and  *)
(* m.err, which is TRUE once a Python exception has escaped.               *)

\* a PPU that has video memory attached (the PPU of src/ has none)
HasVideoMemory(p) == "memory" \in DOMAIN p

\* the video-memory byte at address of a PPU that has video memory
VideoByte(p, address) == ArrGet(p.memory, address)

\* PPU.read_memory: its body is `pass` and the call returns None; with video
\* memory attached it returns the byte at the address
PPUReadMemory(p, address) ==
    IF HasVideoMemory(p) THEN VideoByte(p, address) ELSE None

\* PPU.write_memory: its body is `pass`
PPUWriteMemory(p, address, value) == p

\* read_register whose status read clears the whole status byte
PPUReadRegister_ClearAll(p, address) ==
    IF address = 8194 THEN
        [v |-> p.status,
         p |-> [p EXCEPT !.addr_write_latch = FALSE, !.status = 0],
         err |-> FALSE]
    ELSE IF address = 8196 THEN
        IF p.spr_address >= SPR_RAM_SIZE
        THEN [v |-> None, p |-> p, err |-> TRUE]
        ELSE [v |-> ArrGet(p.spr, p.spr_address), p |-> p, err |-> FALSE]
    ELSE IF address = 8199 THEN
        LET buffered == (p.addr % 16384) < 16128
            value == IF buffered THEN p.buffer2007 ELSE PPUReadMemory(p, p.addr)
            buf   == IF buffered THEN PPUReadMemory(p, p.addr)
                     ELSE PPUReadMemory(p, p.addr - 4096)
        IN  [v |-> value,
             p |-> [p EXCEPT !.buffer2007 = buf,
                             !.addr = p.addr + p.address_increment],
             err |-> FALSE]
    ELSE [v |-> None, p |-> p, err |-> FALSE]

\* read_register whose data-port read compares the address itself with 0x3F00
PPUReadRegister_NoWrap(p, address) ==
    IF address = 8194 THEN                                   \* 0x2002
        [v |-> p.status,
         p |-> [p EXCEPT !.addr_write_latch = FALSE,
                         !.status = p.status - 128 * Bit(p.status, 7)],
         err |-> FALSE]
    ELSE IF address = 8196 THEN                              \* 0x2004
        IF p.spr_address >= SPR_RAM_SIZE
        THEN [v |-> None, p |-> p, err |-> TRUE]
        ELSE [v |-> ArrGet(p.spr, p.spr_address), p |-> p, err |-> FALSE]
    ELSE IF address = 8199 THEN                              \* 0x2007
        LET buffered == p.addr < 16128
            value == IF buffered THEN p.buffer2007 ELSE PPUReadMemory(p, p.addr)
            buf   == IF buffered THEN PPUReadMemory(p, p.addr)
                     ELSE PPUReadMemory(p, p.addr - 4096)
        IN  [v |-> value,
             p |-> [p EXCEPT !.buffer2007 = buf,
                             !.addr = p.addr + p.address_increment],
             err |-> FALSE]
    ELSE [v |-> None, p |-> p, err |-> FALSE]

\* PPU.read_register: [v |-> the value returned, p |-> the PPU afterwards,
\* err |-> an IndexError escaped]
PPUReadRegister(p, address) ==
    IF address = 8194 THEN                                   \* 0x2002
        [v |-> p.status,
         p |-> [p EXCEPT !.addr_write_latch = FALSE,
                         !.status = p.status - 128 * Bit(p.status, 7)],
         err |-> FALSE]
    ELSE IF address = 8196 THEN                              \* 0x2004
        IF p.spr_address >= SPR_RAM_SIZE
        THEN [v |-> None, p |-> p, err |-> TRUE]
        ELSE [v |-> ArrGet(p.spr, p.spr_address), p |-> p, err |-> FALSE]
    ELSE IF address = 8199 THEN                              \* 0x2007
        LET buffered == (p.addr % 16384) < 16128
            value == IF buffered THEN p.buffer2007 ELSE PPUReadMemory(p, p.addr)
            buf   == IF buffered THEN PPUReadMemory(p, p.addr)
                     ELSE PPUReadMemory(p, p.addr - 4096)
        IN  [v |-> value,
             p |-> [p EXCEPT !.buffer2007 = buf,
                             !.addr = p.addr + p.address_increment],
             err |-> FALSE]
    ELSE [v |-> None, p |-> p, err |-> FALSE]

\* write_register whose data-port write always advances the address by 1
PPUWriteRegister_AddOne(p, address, value) ==
    IF address = 8192 THEN                                   \* 0x2000
        [p |-> [p EXCEPT
                  !.nametable_address = 8192 + (value % 4) * 1024,
                  !.address_increment = IF Bit(value, 2) = 1 THEN 32 ELSE 1,
                  !.spr_pattern_table_address = Bit(value, 3) * 4096,
                  !.background_pattern_table_address = Bit(value, 4) * 4096,
                  !.generate_nmi = (Bit(value, 7) = 1)],
         err |-> FALSE]
    ELSE IF address = 8193 THEN                              \* 0x2001
        [p |-> [p EXCEPT
                  !.show_background = (Bit(value, 3) = 1),
                  !.show_sprites = (Bit(value, 4) = 1),
                  !.left_8_background_show = (Bit(value, 1) = 1),
                  !.left_8_sprite_show = (Bit(value, 2) = 1)],
         err |-> FALSE]
    ELSE IF address = 8195 THEN                              \* 0x2003
        [p |-> [p EXCEPT !.spr_address = value], err |-> FALSE]
    ELSE IF address = 8196 THEN                              \* 0x2004
        IF p.spr_address >= SPR_RAM_SIZE
        THEN [p |-> p, err |-> TRUE]
        ELSE [p |-> [p EXCEPT !.spr = ArrSet(p.spr, p.spr_address, value),
                              !.spr_address = p.spr_address + 1],
              err |-> FALSE]
    ELSE IF address = 8197 THEN                              \* 0x2005
        [p |-> p, err |-> FALSE]
    ELSE IF address = 8198 THEN                              \* 0x2006
        [p |-> [p EXCEPT
                  !.addr = IF ~p.addr_write_latch
                           THEN (p.addr % 256) + (value % 256) * 256
                           ELSE ((p.addr - (p.addr % 256)) % 65536) + (value % 256),
                  !.addr_write_latch = ~p.addr_write_latch],
         err |-> FALSE]
    ELSE IF address = 8199 THEN                              \* 0x2007
        [p |-> [PPUWriteMemory(p, p.addr, value) EXCEPT !.addr = p.addr + 1],
         err |-> FALSE]
    ELSE [p |-> p, err |-> FALSE]

\* write_register whose scroll port (0x2005) shares the address port's latch
PPUWriteRegister_ScrollLatch(p, address, value) ==
    IF address = 8192 THEN                                   \* 0x2000
        [p |-> [p EXCEPT
                  !.nametable_address = 8192 + (value % 4) * 1024,
                  !.address_increment = IF Bit(value, 2) = 1 THEN 32 ELSE 1,
                  !.spr_pattern_table_address = Bit(value, 3) * 4096,
                  !.background_pattern_table_address = Bit(value, 4) * 4096,
                  !.generate_nmi = (Bit(value, 7) = 1)],
         err |-> FALSE]
    ELSE IF address = 8193 THEN                              \* 0x2001
        [p |-> [p EXCEPT
                  !.show_background = (Bit(value, 3) = 1),
                  !.show_sprites = (Bit(value, 4) = 1),
                  !.left_8_background_show = (Bit(value, 1) = 1),
                  !.left_8_sprite_show = (Bit(value, 2) = 1)],
         err |-> FALSE]
    ELSE IF address = 8195 THEN                              \* 0x2003
        [p |-> [p EXCEPT !.spr_address = value], err |-> FALSE]
    ELSE IF address = 8196 THEN                              \* 0x2004
        IF p.spr_address >= SPR_RAM_SIZE
        THEN [p |-> p, err |-> TRUE]
        ELSE [p |-> [p EXCEPT !.spr = ArrSet(p.spr, p.spr_address, value),
                              !.spr_address = p.spr_address + 1],
              err |-> FALSE]
    ELSE IF address = 8197 THEN                              \* 0x2005
        [p |-> [p EXCEPT !.addr_write_latch = ~p.addr_write_latch], err |-> FALSE]
    ELSE IF address = 8198 THEN                              \* 0x2006
        [p |-> [p EXCEPT
                  !.addr = IF ~p.addr_write_latch
                           THEN (p.addr % 256) + (value % 256) * 256
                           ELSE ((p.addr - (p.addr % 256)) % 65536) + (value % 256),
                  !.addr_write_latch = ~p.addr_write_latch],
         err |-> FALSE]
    ELSE IF address = 8199 THEN                              \* 0x2007
        [p |-> [PPUWriteMemory(p, p.addr, value) EXCEPT
                  !.addr = p.addr + p.address_increment],
         err |-> FALSE]
    ELSE [p |-> p, err |-> FALSE]

\* PPU.write_register: [p |-> the PPU afterwards, err |-> an IndexError escaped]
PPUWriteRegister(p, address, value) ==
    IF address = 8192 THEN                                   \* 0x2000
        [p |-> [p EXCEPT
                  !.nametable_address = 8192 + (value % 4) * 1024,
                  !.address_increment = IF Bit(value, 2) = 1 THEN 32 ELSE 1,
                  !.spr_pattern_table_address = Bit(value, 3) * 4096,
                  !.background_pattern_table_address = Bit(value, 4) * 4096,
                  !.generate_nmi = (Bit(value, 7) = 1)],
         err |-> FALSE]
    ELSE IF address = 8193 THEN                              \* 0x2001
        [p |-> [p EXCEPT
                  !.show_background = (Bit(value, 3) = 1),
                  !.show_sprites = (Bit(value, 4) = 1),
                  !.left_8_background_show = (Bit(value, 1) = 1),
                  !.left_8_sprite_show = (Bit(value, 2) = 1)],
         err |-> FALSE]
    ELSE IF address = 8195 THEN                              \* 0x2003
        [p |-> [p EXCEPT !.spr_address = value], err |-> FALSE]
    ELSE IF address = 8196 THEN                              \* 0x2004
        IF p.spr_address >= SPR_RAM_SIZE
        THEN [p |-> p, err |-> TRUE]
        ELSE [p |-> [p EXCEPT !.spr = ArrSet(p.spr, p.spr_address, value),
                              !.spr_address = p.spr_address + 1],
              err |-> FALSE]
    ELSE IF address = 8197 THEN                              \* 0x2005
        [p |-> p, err |-> FALSE]
    ELSE IF address = 8198 THEN                              \* 0x2006
        [p |-> [p EXCEPT
                  !.addr = IF ~p.addr_write_latch
                           THEN (p.addr % 256) + (value % 256) * 256
                           ELSE ((p.addr - (p.addr % 256)) % 65536) + (value % 256),
                  !.addr_write_latch = ~p.addr_write_latch],
         err |-> FALSE]
    ELSE IF address = 8199 THEN                              \* 0x2007
        [p |-> [PPUWriteMemory(p, p.addr, value) EXCEPT
                  !.addr = p.addr + p.address_increment],
         err |-> FALSE]
    ELSE [p |-> p, err |-> FALSE]

(* ----------------------------- cartridge ------------------------------- *)

\* read_mapper0 with the single bank indexed by address - 0x8000 as well, not
\* repeated at 0xC000 (the bytes past the bank read as 0)
ReadMapper0_NoMirror(rom, address) ==
    IF address < 8192 THEN [v |-> None, err |-> TRUE]
    ELSE IF 24576 <= address /\ address < 32768 THEN
        [v |-> ArrGet(rom.prg_ram, address % PRG_RAM_SIZE), err |-> FALSE]
    ELSE IF address >= 32768 THEN
        IF rom.prg_rom_size > 1 THEN
            IF address - 32768 >= rom.prg_rom_size * PRG_ROM_BASE_UNIT_SIZE
            THEN [v |-> None, err |-> TRUE]
            ELSE [v |-> ArrGet(rom.prg_rom, address - 32768), err |-> FALSE]
        ELSE [v |-> ArrGet(rom.prg_rom, address - 32768), err |-> FALSE]
    ELSE [v |-> None, err |-> TRUE]

\* ROM.read_mapper0: [v |-> the byte, err |-> an IndexError or LookupError escaped]
ReadMapper0(rom, address) ==
    IF address < 8192 THEN [v |-> None, err |-> TRUE]     \* CHR-ROM: not on the CPU bus
    ELSE IF 24576 <= address /\ address < 32768 THEN
        [v |-> ArrGet(rom.prg_ram, address % PRG_RAM_SIZE), err |-> FALSE]
    ELSE IF address >= 32768 THEN
        IF rom.prg_rom_size > 1 THEN
            IF address - 32768 >= rom.prg_rom_size * PRG_ROM_BASE_UNIT_SIZE
            THEN [v |-> None, err |-> TRUE]
            ELSE [v |-> ArrGet(rom.prg_rom, address - 32768), err |-> FALSE]
        ELSE [v |-> ArrGet(rom.prg_rom, (address - 32768) % PRG_ROM_BASE_UNIT_SIZE),
              err |-> FALSE]
    ELSE [v |-> None, err |-> TRUE]

\* ROM.write_mapper0
WriteMapper0(rom, address, value) ==
    IF address >= 24576
    THEN [rom EXCEPT !.prg_ram = ArrSet(rom.prg_ram, address % PRG_RAM_SIZE, value)]
    ELSE rom

(* ------------------------------ CPU bus -------------------------------- *)

\* the nested different_pages of address_for_mode: (a1 & 0xFF00) != (a2 & 0xFF00)
different_pages(address1, address2) ==
    ((address1 \div 256) % 256) # ((address2 \div 256) % 256)

\* the RELATIVE branch of address_for_mode with the displacement read unsigned
RelativeAddress_Unsigned(pc, data) == (pc + 2 + data) % 65536

\* the RELATIVE branch of address_for_mode: a signed displacement from PC + 2
RelativeAddress(pc, data) ==
    IF data < 128 THEN (pc + 2 + data) % 65536
    ELSE (pc + 2 + (data - 256)) % 65536

\* CPU.address_for_mode: [address |-> the effective address, m |-> the machine
\* afterwards (page_crossed set by the indexed modes, err by an IndexError)]
AddressForMode(m, data, mode) ==
    CASE mode = "ABSOLUTE" -> [address |-> data, m |-> m]
      [] mode = "ABSOLUTE_X" ->
            LET address == (data + m.X) % 65536
            IN  [address |-> address,
                 m |-> [m EXCEPT !.page_crossed = different_pages(address, address - m.X)]]
      [] mode = "ABSOLUTE_Y" ->
            LET address == (data + m.Y) % 65536
            IN  [address |-> address,
                 m |-> [m EXCEPT !.page_crossed = different_pages(address, address - m.Y)]]
      [] mode = "INDEXED_INDIRECT" ->
            LET ls == ArrGet(m.ram, (data + m.X) % 256)
                ms == ArrGet(m.ram, (data + m.X + 1) % 256)
            IN  [address |-> ms * 256 + ls, m |-> m]
      [] mode = "INDIRECT" ->
            IF data >= MEM_SIZE \/ data + 1 >= MEM_SIZE
            THEN [address |-> 0, m |-> [m EXCEPT !.err = TRUE]]
            ELSE LET ls == ArrGet(m.ram, data)
                     ms == IF data % 256 = 255
                           THEN ArrGet(m.ram, data - (data % 256))
                           ELSE ArrGet(m.ram, data + 1)
                 IN  [address |-> ms * 256 + ls, m |-> m]
      [] mode = "INDIRECT_INDEXED" ->
            LET ls == ArrGet(m.ram, data % 256)
                ms == ArrGet(m.ram, (data + 1) % 256)
                address == (ms * 256 + ls + m.Y) % 65536
            IN  [address |-> address,
                 m |-> [m EXCEPT !.page_crossed = different_pages(address, address - m.Y)]]
      [] mode = "RELATIVE" ->
            [address |-> RelativeAddress(m.PC, data), m |-> m]
      [] mode = "ZEROPAGE" -> [address |-> data, m |-> m]
      [] mode = "ZEROPAGE_X" -> [address |-> (data + m.X) % 256, m |-> m]
      [] mode = "ZEROPAGE_Y" -> [address |-> (data + m.Y) % 256, m |-> m]
      [] OTHER -> [address |-> 0, m |-> m]

\* the joypad branch of CPU.read_memory (address 0x4016)
ReadJoypad(m) ==
    LET j == m.joypad1
        n == j.read_count + 1
        button == CASE n = 1 -> j.a [] n = 2 -> j.b [] n = 3 -> j.select
                    [] n = 4 -> j.start [] n = 5 -> j.up [] n = 6 -> j.down
                    [] n = 7 -> j.left [] n = 8 -> j.right [] OTHER -> FALSE
    IN  IF j.strobe THEN [v |-> IntOf(j.a), m |-> m]
        ELSE [v |-> IF n <= 8 THEN 64 + IntOf(button) ELSE 65,
              m |-> [m EXCEPT !.joypad1.read_count = n]]

\* the result of the PPU branch of read_memory: n is the machine, r what
\* PPU.read_register returned
ReadPPU(n, r) == [v |-> r.v, m |-> [n EXCEPT !.ppu = r.p, !.err = r.err]]

\* the result of the cartridge branch of read_memory
ReadCartridge(n, r) == [v |-> r.v, m |-> [n EXCEPT !.err = r.err]]

\* the memory map of read_memory with the RAM window indexed by the address
\* itself, no mirror folded in
ReadAt_NoMirror(am) ==
    IF am.m.err THEN [v |-> None, m |-> am.m]
    ELSE IF am.address < 8192 THEN [v |-> ArrGet(am.m.ram, am.address), m |-> am.m]
    ELSE IF am.address < 16383
        THEN ReadPPU(am.m, PPUReadRegister(am.m.ppu, 8192 + (am.address % 8)))
    ELSE IF am.address = 16406 THEN ReadJoypad(am.m)
    ELSE IF am.address < 24576 THEN [v |-> 0, m |-> am.m]
    ELSE ReadCartridge(am.m, ReadMapper0(am.m.rom, am.address))

\* the memory map of CPU.read_memory: am is what address_for_mode returned
ReadAt(am) ==
    IF am.m.err THEN [v |-> None, m |-> am.m]
    ELSE IF am.address < 8192 THEN [v |-> ArrGet(am.m.ram, am.address % 2048), m |-> am.m]
    ELSE IF am.address < 16383
        THEN ReadPPU(am.m, PPUReadRegister(am.m.ppu, 8192 + (am.address % 8)))
    ELSE IF am.address = 16406 THEN ReadJoypad(am.m)
    ELSE IF am.address < 24576 THEN [v |-> 0, m |-> am.m]
    ELSE ReadCartridge(am.m, ReadMapper0(am.m.rom, am.address))

\* CPU.read_memory: [v |-> the value read (None when the PPU returned None),
\* m |-> the machine afterwards]
ReadMemory(m, location, mode) ==
    IF mode = "IMMEDIATE" THEN [v |-> location, m |-> m]
    ELSE ReadAt(AddressForMode(m, location, mode))

\* one pass of the DMA loop of CPU.write_memory: r is what read_memory returned
\* for cell i
DMAStore(r, i) ==
    IF r.m.err THEN r.m
    ELSE IF r.v = None THEN [r.m EXCEPT !.err = TRUE]          \* spr[i] = None: TypeError
    ELSE [r.m EXCEPT !.ppu.spr = ArrSet(r.m.ppu.spr, i, r.v)]

\* pass i of the DMA loop, unless an earlier pass raised
DMACell(m, from_address, i) ==
    IF m.err THEN m
    ELSE DMAStore(ReadMemory(m, from_address + i, "ABSOLUTE"), i)

RECURSIVE DMACopy(_, _, _, _)

\* passes i .. i + n - 1 of the DMA loop of CPU.write_memory, in order (n is a
\* power of two: the first half of the passes, then the second from the
\* machine h the first half leaves; binding h through a set has the first
\* half evaluated before the second starts)
DMACopy(m, from_address, i, n) ==
    IF n = 1 THEN DMACell(m, from_address, i)
    ELSE CHOOSE r \in {DMACopy(h, from_address, i + (n \div 2), n \div 2) :
                          h \in {DMACopy(m, from_address, i, n \div 2)}} : TRUE

\* the end of the DMA branch with the 513 cycles of the hardware
DMAStall_513(c) == IF c.err THEN c ELSE [c EXCEPT !.stall = DMA_STALL + 1]

\* the end of the DMA branch of CPU.write_memory: c is the machine after the loop
DMAStall(c) == IF c.err THEN c ELSE [c EXCEPT !.stall = DMA_STALL]

\* the result of the PPU branch of write_memory
WritePPU(n, r) == [n EXCEPT !.ppu = r.p, !.err = r.err]

\* the joypad branch of write_memory with every write restarting the read
\* sequence
WriteJoypad_AlwaysReset(n, value) ==
    [n EXCEPT !.joypad1.read_count = 0,
              !.joypad1.strobe = BoolOf(value % 2)]

\* the joypad branch of CPU.write_memory (address 0x4016)
WriteJoypad(n, value) ==
    [n EXCEPT !.joypad1.read_count =
                  IF n.joypad1.strobe /\ ~BoolOf(value % 2) THEN 0
                  ELSE n.joypad1.read_count,
              !.joypad1.strobe = BoolOf(value % 2)]

\* the memory map of CPU.write_memory: am is what address_for_mode returned
WriteAt(am, value) ==
    IF am.m.err THEN am.m
    ELSE IF am.address < 8192
        THEN [am.m EXCEPT !.ram = ArrSet(am.m.ram, am.address % 2048, value)]
    ELSE IF am.address < 16383
        THEN WritePPU(am.m, PPUWriteRegister(am.m.ppu, 8192 + (am.address % 8), value))
    ELSE IF am.address = 16404 THEN DMAStall(DMACopy(am.m, value * 256, 0, SPR_RAM_SIZE))
    ELSE IF am.address = 16406 THEN WriteJoypad(am.m, value)
    ELSE IF am.address < 24576 THEN am.m
    ELSE [am.m EXCEPT !.rom = WriteMapper0(am.m.rom, am.address, value)]

\* CPU.write_memory
WriteMemory(m, location, mode, value) ==
    IF mode = "IMMEDIATE" THEN
        IF location >= MEM_SIZE THEN [m EXCEPT !.err = TRUE]
        ELSE [m EXCEPT !.ram = ArrSet(m.ram, location, value)]
    ELSE WriteAt(AddressForMode(m, location, mode), value)

\* CPU.setZN
SetZN(m, value) ==
    [m EXCEPT !.Z = (value = 0), !.N = (BoolOf(Bit(value, 7)) \/ value < 0)]

\* stack_push without the & 0xFF on SP
StackPush_NoWrap(m, value) ==
    [m EXCEPT !.ram = ArrSet(m.ram, STACK_START + m.SP, value),
              !.SP = m.SP - 1]

\* CPU.stack_push
StackPush(m, value) ==
    [m EXCEPT !.ram = ArrSet(m.ram, STACK_START + m.SP, value),
              !.SP = (m.SP - 1) % 256]

\* stack_pop reading before it increments
StackPop_ReadFirst(m) ==
    [v |-> ArrGet(m.ram, STACK_START + m.SP),
     m |-> [m EXCEPT !.SP = (m.SP + 1) % 256]]

\* CPU.stack_pop: [v |-> the byte popped, m |-> the machine afterwards]
StackPop(m) ==
    [v |-> ArrGet(m.ram, STACK_START + ((m.SP + 1) % 256)),
     m |-> [m EXCEPT !.SP = (m.SP + 1) % 256]]

\* CPU.status
Status(m) ==
    IntOf(m.C) + 2 * IntOf(m.Z) + 4 * IntOf(m.I) + 8 * IntOf(m.D)
      + 16 * IntOf(m.B) + 32 + 64 * IntOf(m.V) + 128 * IntOf(m.N)

\* set_status taking Overflow from bit 7
SetStatus_OverflowFromSign(m, temp) ==
    [m EXCEPT !.C = BoolOf(Bit(temp, 0)), !.Z = BoolOf(Bit(temp, 1)),
              !.I = BoolOf(Bit(temp, 2)), !.D = BoolOf(Bit(temp, 3)),
              !.B = FALSE,
              !.V = BoolOf(Bit(temp, 7)), !.N = BoolOf(Bit(temp, 7))]

\* set_status taking the Break flag from bit 4
SetStatus_PullBreak(m, temp) ==
    [m EXCEPT !.C = BoolOf(Bit(temp, 0)), !.Z = BoolOf(Bit(temp, 1)),
              !.I = BoolOf(Bit(temp, 2)), !.D = BoolOf(Bit(temp, 3)),
              !.B = BoolOf(Bit(temp, 4)),
              !.V = BoolOf(Bit(temp, 6)), !.N = BoolOf(Bit(temp, 7))]

\* CPU.set_status
SetStatus(m, temp) ==
    [m EXCEPT !.C = BoolOf(Bit(temp, 0)), !.Z = BoolOf(Bit(temp, 1)),
              !.I = BoolOf(Bit(temp, 2)), !.D = BoolOf(Bit(temp, 3)),
              !.B = FALSE,
              !.V = BoolOf(Bit(temp, 6)), !.N = BoolOf(Bit(temp, 7))]

(* ------------------------------ CPU.step ------------------------------- *)

\* an uncaught Python exception: the emulator stops
Crash(m) == [m EXCEPT !.err = TRUE]

\* a read that gave no byte: an exception escaped, or the PPU returned None
\* and the instruction's arithmetic on it raises TypeError
NoByte(r) == r.m.err \/ r.v = None

\* the outcome of one branch of step()'s if/elif chain
Fall(x) == [m |-> x, jumped |-> FALSE]
Jump(x) == [m |-> x, jumped |-> TRUE]

\* instruction kinds whose action starts with read_memory(data, mode)
ReadTypes == {"ADC", "AND", "BIT", "CMP", "CPX", "CPY", "DEC", "EOR", "INC",
              "LDA", "LDX", "LDY", "ORA", "SBC"}

\* instruction kinds that read A in accumulator mode and memory otherwise
ShiftTypes == {"ASL", "LSR", "ROL", "ROR"}

\* bit 7 of ~(a ^ src) & (a ^ signed_result): the overflow of ADC
OverflowADC(a, src, signed_result) ==
    BoolOf((1 - ((Bit(a, 7) + Bit(src, 7)) % 2))
             * ((Bit(a, 7) + Bit(signed_result, 7)) % 2))

\* ADC with the carry test off by one (>= 0xFF)
ExecADC_CarryAt255(m, src) ==
    SetZN([m EXCEPT !.V = OverflowADC(m.A, src, src + m.A + IntOf(m.C)),
                    !.A = (m.A + src + IntOf(m.C)) % 256,
                    !.C = (src + m.A + IntOf(m.C) >= 255)],
          (m.A + src + IntOf(m.C)) % 256)

\* the ADC branch of step()
ExecADC(m, src) ==
    SetZN([m EXCEPT !.V = OverflowADC(m.A, src, src + m.A + IntOf(m.C)),
                    !.A = (m.A + src + IntOf(m.C)) % 256,
                    !.C = (src + m.A + IntOf(m.C) > 255)],
          (m.A + src + IntOf(m.C)) % 256)

\* the overflow of SBC computed as ADC computes its own, on the operand as given
OverflowSBC_AsADC(a, src, signed_result) == OverflowADC(a, src, signed_result)

\* bit 7 of (a ^ src) & (a ^ signed_result): the overflow of SBC
OverflowSBC(a, src, signed_result) ==
    BoolOf(((Bit(a, 7) + Bit(src, 7)) % 2)
             * ((Bit(a, 7) + Bit(signed_result, 7)) % 2))

\* SBC with the borrow test off by one (<= 0)
ExecSBC_BorrowAtZero(m, src) ==
    SetZN([m EXCEPT !.V = OverflowSBC(m.A, src, m.A - src - (1 - IntOf(m.C))),
                    !.A = (m.A - src - (1 - IntOf(m.C))) % 256,
                    !.C = ~(m.A - src - (1 - IntOf(m.C)) <= 0)],
          (m.A - src - (1 - IntOf(m.C))) % 256)

\* the SBC branch of step()
ExecSBC(m, src) ==
    SetZN([m EXCEPT !.V = OverflowSBC(m.A, src, m.A - src - (1 - IntOf(m.C))),
                    !.A = (m.A - src - (1 - IntOf(m.C))) % 256,
                    !.C = ~(m.A - src - (1 - IntOf(m.C)) < 0)],
          (m.A - src - (1 - IntOf(m.C))) % 256)

\* the CMP, CPX and CPY branches of step(): reg is the register compared
ExecCompare(m, reg, src) ==
    SetZN([m EXCEPT !.C = (reg >= src)], reg - src)

\* the shifts with ROR leaving bit 7 of the result clear
ShiftResult_RORClearsTop(type, src, old_c) ==
    CASE type = "ASL" -> [c |-> BoolOf(src \div 128), src |-> (src * 2) % 256]
      [] type = "LSR" -> [c |-> BoolOf(src % 2), src |-> src \div 2]
      [] type = "ROL" -> [c |-> BoolOf(Bit(src, 7)),
                          src |-> ((src * 2) % 256) + IntOf(old_c)]
      [] type = "ROR" -> [c |-> BoolOf(src % 2), src |-> src \div 2]

\* the arithmetic of the ASL, LSR, ROL and ROR branches of step():
\* [c |-> the new carry, src |-> the result]
ShiftResult(type, src, old_c) ==
    CASE type = "ASL" -> [c |-> BoolOf(src \div 128), src |-> (src * 2) % 256]
      [] type = "LSR" -> [c |-> BoolOf(src % 2), src |-> src \div 2]
      [] type = "ROL" -> [c |-> BoolOf(Bit(src, 7)),
                          src |-> ((src * 2) % 256) + IntOf(old_c)]
      [] type = "ROR" -> [c |-> BoolOf(src % 2),
                          src |-> Or8(src \div 2, 128 * IntOf(old_c))]

\* a shift in accumulator mode: s is its ShiftResult
ShiftA(m, s) == [SetZN([m EXCEPT !.C = s.c], s.src) EXCEPT !.A = s.src]

\* a shift of a memory operand: r is what read_memory returned
ShiftM(r, s, data, mode) ==
    WriteMemory(SetZN([r.m EXCEPT !.C = s.c], s.src), data, mode, s.src)

\* the ASL, LSR, ROL and ROR branches of step() on a memory operand
ExecShiftM(r, type, data, mode) ==
    IF NoByte(r) THEN Crash(r.m)
    ELSE ShiftM(r, ShiftResult(type, r.v, r.m.C), data, mode)

\* whether a conditional branch of this kind is taken
BranchTaken(m, type) ==
    CASE type = "BCC" -> ~m.C [] type = "BCS" -> m.C
      [] type = "BEQ" -> m.Z  [] type = "BNE" -> ~m.Z
      [] type = "BMI" -> m.N  [] type = "BPL" -> ~m.N
      [] type = "BVC" -> ~m.V [] type = "BVS" -> m.V

\* self.PC = self.address_for_mode(data, mode): am is what address_for_mode returned
JumpTo(am) == [am.m EXCEPT !.PC = am.address]

\* stack_push((PC >> 8) & 0xFF); stack_push(PC & 0xFF)
PushPC(m) == StackPush(StackPush(m, (m.PC \div 256) % 256), m.PC % 256)

\* B = True; stack_push(status); B = False
PushStatus(m) == [StackPush(m, Status([m EXCEPT !.B = TRUE])) EXCEPT !.B = FALSE]

\* PC = lo | (hi << 8) from the two reads of a vector
VectorPC(lo, hi) ==
    IF lo.m.err \/ hi.m.err THEN Crash(hi.m)
    ELSE [hi.m EXCEPT !.PC = lo.v + hi.v * 256]

\* the second read of a vector: lo is what the first read returned
VectorHigh(lo, vector) == VectorPC(lo, ReadMemory(lo.m, vector + 1, "ABSOLUTE"))

\* PC = read_memory(vector) | (read_memory(vector + 1) << 8)
LoadVector(m, vector) == VectorHigh(ReadMemory(m, vector, "ABSOLUTE"), vector)

\* BRK pushing the address of the byte after the opcode (PC + 1)
ExecBRK_PushNext(m) ==
    LoadVector([PushStatus(PushPC([m EXCEPT !.PC = m.PC + 1])) EXCEPT !.I = TRUE],
               IRQ_BRK_VECTOR)

\* the BRK branch of step()
ExecBRK(m) ==
    LoadVector([PushStatus(PushPC([m EXCEPT !.PC = m.PC + 2])) EXCEPT !.I = TRUE],
               IRQ_BRK_VECTOR)

\* the JSR branch of step()
ExecJSR(m, data, mode) ==
    JumpTo(AddressForMode(PushPC([m EXCEPT !.PC = m.PC + 2]), data, mode))

\* PC = ((hb << 8) | lb) + inc from two pops
PoppedPC(lb, hb, inc) == [hb.m EXCEPT !.PC = (hb.v * 256 + lb.v) + inc]

\* hb = stack_pop(): lb is what the pop before returned
PopHigh(lb, inc) == PoppedPC(lb, StackPop(lb.m), inc)

\* lb = stack_pop(); hb = stack_pop(); PC = ((hb << 8) | lb) + inc
PopPC(m, inc) == PopHigh(StackPop(m), inc)

\* set_status(stack_pop()): p is what stack_pop returned
PopStatus(p) == SetStatus(p.m, p.v)

\* RTI adding 1 to the popped address, as RTS does
ExecRTI_PlusOne(m) == PopPC(PopStatus(StackPop(m)), 1)

\* the RTI branch of step()
ExecRTI(m) == PopPC(PopStatus(StackPop(m)), 0)

\* the RTS branch of step()
ExecRTS(m) == PopPC(m, 1)

\* the PLA branch of step(): p is what stack_pop returned
ExecPLA(p) == SetZN([p.m EXCEPT !.A = p.v], p.v)

\* a branch of step() whose read gave no byte: the loads store the None
\* before setZN raises TypeError on it, the others raise on their arithmetic
NoOperand(r, type) ==
    IF r.m.err THEN r.m
    ELSE CASE type = "LDA" -> Crash([r.m EXCEPT !.A = None])
           [] type = "LDX" -> Crash([r.m EXCEPT !.X = None])
           [] type = "LDY" -> Crash([r.m EXCEPT !.Y = None])
           [] OTHER -> Crash(r.m)

\* the branches of step() that start with read_memory(data, mode): r is what
\* it returned
ExecRead(r, type, data, mode) ==
    IF NoByte(r) THEN NoOperand(r, type)
    ELSE
    CASE type = "ADC" -> ExecADC(r.m, r.v)
      [] type = "AND" -> SetZN([r.m EXCEPT !.A = And8(r.m.A, r.v)], And8(r.m.A, r.v))
      [] type = "BIT" -> [r.m EXCEPT !.V = BoolOf(Bit(r.v, 6)),
                                     !.Z = (And8(r.v, r.m.A) = 0),
                                     !.N = (r.v \div 128 = 1)]
      [] type = "CMP" -> ExecCompare(r.m, r.m.A, r.v)
      [] type = "CPX" -> ExecCompare(r.m, r.m.X, r.v)
      [] type = "CPY" -> ExecCompare(r.m, r.m.Y, r.v)
      [] type = "DEC" -> SetZN(WriteMemory(r.m, data, mode, (r.v - 1) % 256),
                               (r.v - 1) % 256)
      [] type = "EOR" -> SetZN([r.m EXCEPT !.A = Xor8(r.m.A, r.v)], Xor8(r.m.A, r.v))
      [] type = "INC" -> SetZN(WriteMemory(r.m, data, mode, (r.v + 1) % 256),
                               (r.v + 1) % 256)
      [] type = "LDA" -> SetZN([r.m EXCEPT !.A = r.v], r.v)
      [] type = "LDX" -> SetZN([r.m EXCEPT !.X = r.v], r.v)
      [] type = "LDY" -> SetZN([r.m EXCEPT !.Y = r.v], r.v)
      [] type = "ORA" -> SetZN([r.m EXCEPT !.A = Or8(r.m.A, r.v)], Or8(r.m.A, r.v))
      [] type = "SBC" -> ExecSBC(r.m, r.v)

\* the branches of step() that read no operand through read_memory
ExecOther(m, type, data, mode) ==
    CASE type = "BRK" -> Jump(ExecBRK(m))
      [] type = "CLC" -> Fall([m EXCEPT !.C = FALSE])
      [] type = "CLD" -> Fall([m EXCEPT !.D = FALSE])
      [] type = "CLI" -> Fall([m EXCEPT !.I = FALSE])
      [] type = "CLV" -> Fall([m EXCEPT !.V = FALSE])
      [] type = "DEX" -> Fall(SetZN([m EXCEPT !.X = (m.X - 1) % 256], (m.X - 1) % 256))
      [] type = "DEY" -> Fall(SetZN([m EXCEPT !.Y = (m.Y - 1) % 256], (m.Y - 1) % 256))
      [] type = "INX" -> Fall(SetZN([m EXCEPT !.X = (m.X + 1) % 256], (m.X + 1) % 256))
      [] type = "INY" -> Fall(SetZN([m EXCEPT !.Y = (m.Y + 1) % 256], (m.Y + 1) % 256))
      [] type = "JMP" -> Jump(JumpTo(AddressForMode(m, data, mode)))
      [] type = "JSR" -> Jump(ExecJSR(m, data, mode))
      [] type = "NOP" -> Fall(m)
      [] type = "PHA" -> Fall(StackPush(m, m.A))
      [] type = "PHP" -> Fall(PushStatus(m))
      [] type = "PLA" -> Fall(ExecPLA(StackPop(m)))
      [] type = "PLP" -> Fall(PopStatus(StackPop(m)))
      [] type = "RTI" -> Jump(ExecRTI(m))
      [] type = "RTS" -> Jump(ExecRTS(m))
      [] type = "SEC" -> Fall([m EXCEPT !.C = TRUE])
      [] type = "SED" -> Fall([m EXCEPT !.D = TRUE])
      [] type = "SEI" -> Fall([m EXCEPT !.I = TRUE])
      [] type = "STA" -> Fall(WriteMemory(m, data, mode, m.A))
      [] type = "STX" -> Fall(WriteMemory(m, data, mode, m.X))
      [] type = "STY" -> Fall(WriteMemory(m, data, mode, m.Y))
      [] type = "TAX" -> Fall(SetZN([m EXCEPT !.X = m.A], m.A))
      [] type = "TAY" -> Fall(SetZN([m EXCEPT !.Y = m.A], m.A))
      [] type = "TSX" -> Fall(SetZN([m EXCEPT !.X = m.SP], m.SP))
      [] type = "TXA" -> Fall(SetZN([m EXCEPT !.A = m.X], m.X))
      [] type = "TXS" -> Fall([m EXCEPT !.SP = m.X])
      [] type = "TYA" -> Fall(SetZN([m EXCEPT !.A = m.Y], m.Y))
      [] OTHER -> Fall(m)                       \* "Unimplemented Instruction"

\* the if/elif chain of step(): [m |-> the machine afterwards, jumped |-> the flag]
Execute(m, type, data, mode) ==
    IF type \in ReadTypes THEN Fall(ExecRead(ReadMemory(m, data, mode), type, data, mode))
    ELSE IF type \in ShiftTypes THEN
        IF mode = "ACCUMULATOR" THEN Fall(ShiftA(m, ShiftResult(type, m.A, m.C)))
        ELSE Fall(ExecShiftM(ReadMemory(m, data, mode), type, data, mode))
    ELSE IF type \in BranchTypes THEN
        IF BranchTaken(m, type) THEN Jump(JumpTo(AddressForMode(m, data, mode)))
        ELSE Fall(m)
    ELSE ExecOther(m, type, data, mode)

\* the operand once both bytes are read
Operand2(b1, b2) ==
    IF NoByte(b2) THEN [data |-> 0, m |-> Crash(b2.m)]
    ELSE [data |-> b1.v + b2.v * 256, m |-> b2.m]

\* the operand once its first byte is read
Operand1(b1, length) ==
    IF NoByte(b1) THEN [data |-> 0, m |-> Crash(b1.m)]
    ELSE IF length < 3 THEN [data |-> b1.v, m |-> b1.m]
    ELSE Operand2(b1, ReadMemory(b1.m, b1.m.PC + 2, "ABSOLUTE"))

\* the operand loop of step(): [data |-> the operand, m |-> the machine afterwards]
FetchOperand(m, length) ==
    IF length < 2 THEN [data |-> 0, m |-> m]
    ELSE Operand1(ReadMemory(m, m.PC + 1, "ABSOLUTE"), length)

\* the PC advance of step() with every instruction moving on by at least its
\* opcode byte
AdvancePC_AtLeastOne(m, instruction, jumped) ==
    IF ~jumped
    THEN [m EXCEPT !.PC = m.PC + (IF instruction.length = 0 THEN 1 ELSE instruction.length)]
    ELSE IF instruction.type \in BranchTypes THEN [m EXCEPT !.cpu_ticks = m.cpu_ticks + 1]
    ELSE m

\* if not jumped: PC += length; elif a branch: cpu_ticks += 1
AdvancePC(m, instruction, jumped) ==
    IF ~jumped THEN [m EXCEPT !.PC = m.PC + instruction.length]
    ELSE IF instruction.type \in BranchTypes THEN [m EXCEPT !.cpu_ticks = m.cpu_ticks + 1]
    ELSE m

\* cpu_ticks += ticks; if page_crossed: cpu_ticks += page_ticks
AddTicks(m, instruction) ==
    [m EXCEPT !.cpu_ticks = m.cpu_ticks + instruction.ticks
                              + (IF m.page_crossed THEN instruction.page_ticks ELSE 0)]

\* the tail of step(): the PC advance and the cycle count
Account(e, instruction) ==
    IF e.m.err THEN e.m
    ELSE AddTicks(AdvancePC(e.m, instruction, e.jumped), instruction)

\* step() from the operand on: o is what the operand loop returned
Run(o, instruction) ==
    IF o.m.err THEN o.m
    ELSE Account(Execute(o.m, instruction.type, o.data, instruction.mode), instruction)

\* step() from the decode on: f is what the opcode fetch returned
Decode(f) ==
    IF NoByte(f) THEN Crash(f.m)
    ELSE Run(FetchOperand([f.m EXCEPT !.page_crossed = FALSE], Instr(f.v).length),
             Instr(f.v))

\* CPU.step
StepOp(m) ==
    IF m.stall > 0
    THEN [m EXCEPT !.stall = m.stall - 1, !.cpu_ticks = m.cpu_ticks + 1]
    ELSE Decode(ReadMemory(m, m.PC, "ABSOLUTE"))

\* CPU.trigger_NMI
TriggerNMIOp(m) ==
    LoadVector([PushStatus(PushPC(m)) EXCEPT !.I = TRUE], NMI_VECTOR)

(* ------------------------------- state --------------------------------- *)

VARIABLES
    A, X, Y, SP, PC,              \* CPU registers
    C, Z, I, D, B, V, N,          \* CPU flags
    page_crossed, cpu_ticks, stall,
    ram,                          \* CPU.ram
    joypad1,                      \* CPU.joypad1
    ppu,                          \* the PPU object
    rom,                          \* the ROM object
    err,                          \* an exception has escaped: the emulator has stopped
    lastOp,                       \* history: the call made last
    pre,                          \* history: the machine (the interpreter, when the call
                                  \* was made to NanoBASIC) before that call
    lastOp2,                      \* history: the call made before the last
    pre2,                         \* history: the machine before that call
    budget,                       \* calls the driver may still make
    dmaSeen, dmaAge,              \* history: step() calls since the last OAM-DMA write
    plan,                         \* stack driver: [n |-> pushes planned, sp |-> SP at the start]
    pushed, popped,               \* stack driver: bytes pushed, bytes popped
    ports,                        \* bus driver: [reads, writes, bytes] it may use
    access, access2,              \* bus driver: the last access and the one before it
    written,                      \* bus driver: address -> the byte it wrote there last
    addrWrites,                   \* bus driver: 0x2006 writes since power-on or the last 0x2002 read
    padReads,                     \* bus driver: 0x4016 reads since the last write that took the
                                  \* strobe from high to low, None before the first such write
    loop,                         \* the drive loop: its position, its locals, the PPU's
                                  \* scanline and cycle, and counts of what it has done
    original_data, rle_data,      \* RetroDither: run_length_encode's argument and its result
    interpreter,                  \* NanoBASIC: the Interpreter object
    gosubs,                       \* NanoBASIC history: the GOSUBs not yet returned from
    vm,                           \* Chip8: the VM object
    run                           \* Chip8: run()'s position and locals, the event taken last

cpuVars == <<A, X, Y, SP, PC, C, Z, I, D, B, V, N, page_crossed, cpu_ticks, stall,
             ram, joypad1>>
machineVars == <<cpuVars, ppu, rom, err>>
stackVars == <<plan, pushed, popped>>
dmaVars == <<dmaSeen, dmaAge>>
histVars == <<lastOp, pre, lastOp2, pre2>>
busVars == <<ports, access, access2, written, addrWrites, padReads>>
\* the state of the repository's other programs
otherVars == <<original_data, rle_data, interpreter, gosubs, vm, run>>
vars == <<machineVars, histVars, budget, dmaVars, stackVars, busVars, loop, otherVars>>

\* the encoder with nothing to encode
EncoderIdle == original_data = <<>> /\ rle_data = <<>>

\* no NanoBASIC interpreter has been constructed
InterpreterIdle == interpreter = <<>> /\ gosubs = <<>>

\* no Chip8 VM has been constructed
VMIdle == vm = <<>> /\ run = <<>>

\* the other programs while the emulator runs
OthersIdle == EncoderIdle /\ InterpreterIdle /\ VMIdle

\* the machine the variables hold
Machine ==
    [A |-> A, X |-> X, Y |-> Y, SP |-> SP, PC |-> PC,
     C |-> C, Z |-> Z, I |-> I, D |-> D, B |-> B, V |-> V, N |-> N,
     page_crossed |-> page_crossed, cpu_ticks |-> cpu_ticks, stall |-> stall,
     ram |-> ram, joypad1 |-> joypad1, ppu |-> ppu, rom |-> rom, err |-> err]

\* the variables hold machine n
Holds(n) ==
    /\ A = n.A /\ X = n.X /\ Y = n.Y /\ SP = n.SP /\ PC = n.PC
    /\ C = n.C /\ Z = n.Z /\ I = n.I /\ D = n.D /\ B = n.B /\ V = n.V /\ N = n.N
    /\ page_crossed = n.page_crossed /\ cpu_ticks = n.cpu_ticks /\ stall = n.stall
    /\ ram = n.ram /\ joypad1 = n.joypad1 /\ ppu = n.ppu /\ rom = n.rom /\ err = n.err

\* the variables hold machine n in the next state
Becomes(n) ==
    /\ A' = n.A /\ X' = n.X /\ Y' = n.Y /\ SP' = n.SP /\ PC' = n.PC
    /\ C' = n.C /\ Z' = n.Z /\ I' = n.I /\ D' = n.D /\ B' = n.B /\ V' = n.V /\ N' = n.N
    /\ page_crossed' = n.page_crossed /\ cpu_ticks' = n.cpu_ticks /\ stall' = n.stall
    /\ ram' = n.ram /\ joypad1' = n.joypad1 /\ ppu' = n.ppu /\ rom' = n.rom
    /\ err' = n.err

\* PPU.__init__
NewPPU ==
    [spr |-> EmptyArr, addr |-> 0, addr_write_latch |-> FALSE, status |-> 0,
     spr_address |-> 0, nametable_address |-> 0, address_increment |-> 1,
     spr_pattern_table_address |-> 0, background_pattern_table_address |-> 0,
     generate_nmi |-> FALSE, show_background |-> FALSE, show_sprites |-> FALSE,
     left_8_sprite_show |-> FALSE, left_8_background_show |-> FALSE,
     buffer2007 |-> 0]

\* Joypad()
NewJoypad ==
    [strobe |-> FALSE, read_count |-> 0, a |-> FALSE, b |-> FALSE, select |-> FALSE,
     start |-> FALSE, up |-> FALSE, down |-> FALSE, left |-> FALSE, right |-> FALSE]

\* ROM.__init__ for a mapper-0 file with `banks` PRG banks holding prg_rom
NewROM(banks, prg_rom) ==
    [prg_rom_size |-> banks, prg_rom |-> prg_rom, prg_ram |-> EmptyArr]

\* CPU.__init__ wired to a fresh PPU and cartridge r
NewCPU(r) ==
    LoadVector([A |-> 0, X |-> 0, Y |-> 0, SP |-> STACK_POINTER_RESET, PC |-> 0,
                C |-> FALSE, Z |-> FALSE, I |-> TRUE, D |-> FALSE, B |-> FALSE,
                V |-> FALSE, N |-> FALSE,
                page_crossed |-> FALSE, cpu_ticks |-> 0, stall |-> 0,
                ram |-> EmptyArr, joypad1 |-> NewJoypad, ppu |-> NewPPU, rom |-> r,
                err |-> FALSE],
               RESET_VECTOR)

(* --------------------------- program images ---------------------------- *)

\* a PRG-ROM image of one 16 KiB bank: cells maps CPU addresses in
\* 0x8000..0xFFFF to bytes (the bank is visible at 0x8000 and at 0xC000)
Image1(cells) ==
    LET offs == {(a - 32768) % PRG_ROM_BASE_UNIT_SIZE : a \in {x \in DOMAIN cells : cells[x] # 0}}
    IN  [o \in offs |->
            cells[CHOOSE a \in DOMAIN cells :
                     cells[a] # 0 /\ (a - 32768) % PRG_ROM_BASE_UNIT_SIZE = o]]

\* the bytes of seq laid out from address base
At(base, seq) == [a \in base..(base + Len(seq) - 1) |-> seq[a - base + 1]]

\* the reset vector pointing at address a
ResetTo(a) == At(RESET_VECTOR, <<a % 256, a \div 256>>)

\* RAM holding cells (addresses 0..0x7FF to bytes)
RamOf(cells) == [a \in {x \in DOMAIN cells : cells[x] # 0} |-> cells[a]]

\* the cells of an image that lie in addresses S
Restrict(cells, S) == [a \in (DOMAIN cells) \cap S |-> cells[a]]

\* a one-bank cartridge and a CPU built on it whose RAM has since been filled
\* from the cells below 0x800 and whose PC has reached pc: cells maps CPU
\* addresses to bytes
Loaded(cells, pc) ==
    [NewCPU(NewROM(1, Image1(Restrict(cells, 32768..65536) @@ ResetTo(32768))))
       EXCEPT !.ram = RamOf(Restrict(cells, 0..(MEM_SIZE - 1))), !.PC = pc]

(* ------------------------------ actions -------------------------------- *)

\* instruction kinds whose action calls write_memory(data, mode, ...)
StoreTypes == {"STA", "STX", "STY", "DEC", "INC", "ASL", "LSR", "ROL", "ROR"}

\* the instruction, with operand o, writes the OAM-DMA port 0x4014
TargetsDMA(o, instruction) ==
    /\ ~o.m.err
    /\ instruction.type \in StoreTypes
    /\ instruction.mode # "ACCUMULATOR"
    /\ AddressForMode(o.m, o.data, instruction.mode).address = 16404

\* f is what the opcode fetch returned
WritesDMAAt(f) ==
    ~NoByte(f) /\ TargetsDMA(FetchOperand(f.m, Instr(f.v).length), Instr(f.v))

\* step() on machine m executes a write to the OAM-DMA port
WritesDMA(m) == m.stall = 0 /\ WritesDMAAt(ReadMemory(m, m.PC, "ABSOLUTE"))

\* the history after a call named op
Record(op) ==
    /\ lastOp' = op
    /\ pre' = Machine
    /\ lastOp2' = lastOp
    /\ pre2' = pre

\* the harness (the drive loop, a test) calls cpu.step() between instructions
Step ==
    /\ ~err
    /\ budget > 0
    /\ Becomes(StepOp(Machine))
    /\ Record("step")
    /\ budget' = budget - 1
    /\ dmaSeen' = (dmaSeen \/ WritesDMA(Machine))
    /\ dmaAge' = IF WritesDMA(Machine) THEN 0
                 ELSE IF dmaSeen THEN dmaAge + 1 ELSE dmaAge
    /\ UNCHANGED <<stackVars, busVars, loop, otherVars>>

\* the drive loop calls cpu.trigger_NMI() between two steps
TriggerNMI ==
    /\ ~err
    /\ budget > 0
    /\ Becomes(TriggerNMIOp(Machine))
    /\ Record("nmi")
    /\ budget' = budget - 1
    /\ UNCHANGED <<dmaVars, stackVars, busVars, loop, otherVars>>

\* the bus driver before its first access, and a driver with no accesses to make
NoAccess == [address |-> None, value |-> None]
NoPorts == [reads |-> {}, writes |-> {}, bytes |-> {}]

\* the drive loop when the harness calls the CPU itself
NoLoop == [pos |-> "off"]

\* the history variables before the first call
FreshHistory(m) ==
    /\ lastOp = "init" /\ pre = m
    /\ lastOp2 = "init" /\ pre2 = m
    /\ dmaSeen = FALSE /\ dmaAge = 0
    /\ pushed = <<>> /\ popped = <<>>
    /\ access = NoAccess /\ access2 = NoAccess
    /\ written = <<>> /\ addrWrites = 0 /\ padReads = None

\* the harness starts from machine m with n calls to make
Start(m, n) ==
    /\ Holds(m) /\ FreshHistory(m) /\ budget = n /\ plan = [n |-> 0, sp |-> m.SP]
    /\ ports = NoPorts /\ loop = NoLoop /\ OthersIdle

\* the harness starts from machine m with n bus accesses to make
StartBus(m, n, reads, writes, bytes) ==
    /\ Holds(m) /\ FreshHistory(m) /\ budget = n /\ plan = [n |-> 0, sp |-> m.SP]
    /\ ports = [reads |-> reads, writes |-> writes, bytes |-> bytes]
    /\ loop = NoLoop /\ OthersIdle

\* the PPU register the documented memory map gives a CPU address in
\* 0x2000..0x3FFF, None elsewhere
PortOf(address) ==
    IF address \in 8192..16383 THEN 8192 + (address % 8) ELSE None

\* the history of bus accesses after one to address that moved value
Accessed(address, value) ==
    /\ access' = [address |-> address, value |-> value]
    /\ access2' = access

\* the byte the driver wrote to 0x4016 last had bit 0 set
StrobeHigh == 16406 \in DOMAIN written /\ written[16406] % 2 = 1

\* an instruction reads the bus: cpu.read_memory(address, ABSOLUTE)
BusRead ==
    /\ ~err
    /\ budget > 0
    /\ \E address \in ports.reads :
        /\ Becomes(ReadMemory(Machine, address, "ABSOLUTE").m)
        /\ Accessed(address, ReadMemory(Machine, address, "ABSOLUTE").v)
        /\ addrWrites' = IF PortOf(address) = 8194 THEN 0 ELSE addrWrites
        /\ padReads' = IF address = 16406 /\ padReads # None THEN padReads + 1
                       ELSE padReads
    /\ Record("read")
    /\ budget' = budget - 1
    /\ UNCHANGED <<dmaVars, stackVars, ports, written, loop, otherVars>>

\* an instruction writes the bus: cpu.write_memory(address, ABSOLUTE, value)
BusWrite ==
    /\ ~err
    /\ budget > 0
    /\ \E address \in ports.writes, value \in ports.bytes :
        /\ Becomes(WriteMemory(Machine, address, "ABSOLUTE", value))
        /\ Accessed(address, value)
        /\ written' = (address :> value) @@ written
        /\ addrWrites' = IF PortOf(address) = 8198 THEN addrWrites + 1 ELSE addrWrites
        /\ padReads' = IF address = 16406 /\ StrobeHigh /\ value % 2 = 0 THEN 0
                       ELSE padReads
    /\ Record("write")
    /\ budget' = budget - 1
    /\ UNCHANGED <<dmaVars, stackVars, ports, loop, otherVars>>

(* ---- ADC: one ADC #m from every accumulator, operand and carry -------- *)

\* steps the driver makes in SpecADC
ADCSteps == 1

InitADC ==
    \E a \in Byte, operand \in Byte, c \in BOOLEAN :
        Start([NewCPU(NewROM(1, Image1(At(32768, <<105, operand>>) @@ ResetTo(32768))))
                 EXCEPT !.A = a, !.C = c], ADCSteps)

SpecADC == InitADC /\ [][Step]_vars

(* ------------------- reading the history variables --------------------- *)

\* the opcode byte step() fetches from machine m
OpcodeAt(m) == ReadMemory(m, m.PC, "ABSOLUTE").v

\* the byte after the opcode
OperandLow(m) == ReadMemory(m, m.PC + 1, "ABSOLUTE").v

\* the second byte after the opcode
OperandHigh(m) == ReadMemory(m, m.PC + 2, "ABSOLUTE").v

\* the last call was a step() that executed an instruction and returned
Executed == lastOp = "step" /\ pre.stall = 0 /\ ~err

\* the last call was a step() that executed opcode op and returned
ExecutedOpcode(op) == Executed /\ OpcodeAt(pre) = op

\* the sign bit of a byte
Sign(b) == b \div 128

(* C6: for every A, m in 0..255 and carry-in c, ADC #m leaves                *)
(* A' = (A + m + c) mod 256, Carry = (A + m + c > 255), Overflow = (A and m  *)
(* have the same sign bit and A' the other), Zero = (A' = 0), Negative =     *)
(* bit 7 of A'; 0x50 + 0x50 with carry clear gives A' = 0xA0, V = 1, C = 0,  *)
(* N = 1, Z = 0.                                                             *)
C6_ADC ==
    ExecutedOpcode(105) =>
        /\ A = (pre.A + OperandLow(pre) + IntOf(pre.C)) % 256
        /\ C = (pre.A + OperandLow(pre) + IntOf(pre.C) > 255)
        /\ V = (Sign(pre.A) = Sign(OperandLow(pre)) /\ Sign(A) # Sign(pre.A))
        /\ Z = (A = 0)
        /\ N = (Sign(A) = 1)
        /\ (pre.A = 80 /\ OperandLow(pre) = 80 /\ ~pre.C
              => A = 160 /\ V /\ ~C /\ N /\ ~Z)

\* ADC #0x50 ran with A = 0x50 and carry clear
C6_Witness ==
    ExecutedOpcode(105) /\ pre.A = 80 /\ OperandLow(pre) = 80 /\ ~pre.C /\ A = 160

(* ---- SBC: one SBC #m from every accumulator, operand and carry -------- *)

\* steps the driver makes in SpecSBC
SBCSteps == 1

InitSBC ==
    \E a \in Byte, operand \in Byte, c \in BOOLEAN :
        Start([NewCPU(NewROM(1, Image1(At(32768, <<233, operand>>) @@ ResetTo(32768))))
                 EXCEPT !.A = a, !.C = c], SBCSteps)

SpecSBC == InitSBC /\ [][Step]_vars

\* a byte read as a signed 8-bit number
Signed(b) == b - 256 * Sign(b)

(* C7: for every A, m in 0..255 and carry-in c, SBC #m leaves                *)
(* A' = (A - m - (1 - c)) mod 256, Carry = 1 exactly when no borrow occurred *)
(* (A - m - (1 - c) >= 0), Overflow = 1 exactly when the signed result is    *)
(* outside -128..127, Zero = (A' = 0), Negative = bit 7 of A'; 0x00 - 0x01   *)
(* with carry set gives A' = 0xFF, C = 0, N = 1.                             *)
C7_SBC ==
    ExecutedOpcode(233) =>
        /\ A = (pre.A - OperandLow(pre) - (1 - IntOf(pre.C))) % 256
        /\ C = (pre.A - OperandLow(pre) - (1 - IntOf(pre.C)) >= 0)
        /\ V = (Signed(pre.A) - Signed(OperandLow(pre)) - (1 - IntOf(pre.C))
                  \notin -128..127)
        /\ Z = (A = 0)
        /\ N = (Sign(A) = 1)
        /\ (pre.A = 0 /\ OperandLow(pre) = 1 /\ pre.C => A = 255 /\ ~C /\ N)

\* SBC #0x01 ran with A = 0x00 and carry set
C7_Witness ==
    ExecutedOpcode(233) /\ pre.A = 0 /\ OperandLow(pre) = 1 /\ pre.C /\ A = 255

(* ---- compare: one CMP/CPX/CPY #m from every register and operand ------ *)

\* steps the driver makes in SpecCompare
CompareSteps == 1

\* CMP #, CPX #, CPY #
CompareOpcodes == {201, 224, 192}

\* the register a compare opcode reads, in machine m
Compared(m, op) == CASE op = 201 -> m.A [] op = 224 -> m.X [] op = 192 -> m.Y

InitCompare ==
    \E op \in CompareOpcodes, r \in Byte, operand \in Byte :
        Start([NewCPU(NewROM(1, Image1(At(32768, <<op, operand>>) @@ ResetTo(32768))))
                 EXCEPT !.A = IF op = 201 THEN r ELSE 17,
                        !.X = IF op = 224 THEN r ELSE 34,
                        !.Y = IF op = 192 THEN r ELSE 51], CompareSteps)

SpecCompare == InitCompare /\ [][Step]_vars

(* C8: for every register value r (A for CMP, X for CPX, Y for CPY) and      *)
(* operand m in 0..255, the compare sets Carry exactly when r >= m, Zero     *)
(* exactly when r = m, Negative to bit 7 of (r - m) mod 256, and leaves A,   *)
(* X, Y, SP and memory unchanged.                                            *)
C8_Compare ==
    \A op \in CompareOpcodes :
        ExecutedOpcode(op) =>
            /\ C = (Compared(pre, op) >= OperandLow(pre))
            /\ Z = (Compared(pre, op) = OperandLow(pre))
            /\ N = (Sign((Compared(pre, op) - OperandLow(pre)) % 256) = 1)
            /\ A = pre.A /\ X = pre.X /\ Y = pre.Y /\ SP = pre.SP
            /\ ram = pre.ram /\ rom = pre.rom

(* ---- NMI: one trigger_NMI() from a range of CPU states ----------------- *)

\* calls the driver makes in SpecNMI
NMICalls == 1

\* PC when the NMI arrives: RAM, ROM, page ends, the top of the address space
\* and a PC that step() has run past 0xFFFF
NMISites == {0, 32768, 33023, 49443, 65535, 65537}

\* SP when the NMI arrives
NMIStacks == {0, 1, 2, 253, 255}

\* the handler address in the NMI vector
NMIHandlers == {36864, 4660}

InitNMI ==
    \E pc \in NMISites, sp \in NMIStacks, handler \in NMIHandlers,
       f \in [{"C", "Z", "I", "D", "V", "N"} -> BOOLEAN] :
        Start([Loaded(At(NMI_VECTOR, <<handler % 256, handler \div 256>>), pc)
                 EXCEPT !.SP = sp, !.C = f.C, !.Z = f.Z, !.I = f.I, !.D = f.D,
                        !.V = f.V, !.N = f.N], NMICalls)

SpecNMI == InitNMI /\ [][TriggerNMI]_vars

\* the byte in stack slot sp of machine m
StackByte(m, sp) == ArrGet(m.ram, 256 + (sp % 256))

(* C1: trigger_NMI(), between steps in any CPU state, pushes the PC high     *)
(* byte, then the PC low byte, then the status byte with the Break bit       *)
(* (bit 4) clear; afterwards Interrupt-disable is set, SP has decreased by 3 *)
(* (mod 256) and PC is the little-endian 16-bit value at 0xFFFA/0xFFFB.      *)
C1_NMI ==
    (lastOp = "nmi" /\ ~err) =>
        /\ StackByte(Machine, pre.SP) = (pre.PC \div 256) % 256
        /\ StackByte(Machine, pre.SP - 1) = pre.PC % 256
        /\ Bit(StackByte(Machine, pre.SP - 2), 4) = 0
        /\ I
        /\ SP = (pre.SP - 3) % 256
        /\ PC = ReadMemory(pre, 65530, "ABSOLUTE").v
                  + 256 * ReadMemory(pre, 65531, "ABSOLUTE").v

(* ---- OAM DMA: a store to 0x4014, then INX, stepped past the stall ------- *)

\* steps the driver makes in SpecDMA
DMASteps == 516

\* the page the DMA copies from: RAM, the PPU registers (whose read returns
\* None), the I/O ports, PRG-RAM, PRG-ROM
DMAPages == {0, 2, 7, 32, 64, 96, 128, 255}

\* STY abs, STA abs, STX abs, INC abs
DMAOpcodes == {140, 141, 142, 238}

InitDMA ==
    \E op \in DMAOpcodes, page \in DMAPages :
        Start([Loaded(At(32768, <<op, 20, 64, 232, 232, 232, 232>>), 32768)
                 EXCEPT !.A = page, !.X = page, !.Y = page], DMASteps)

SpecDMA == InitDMA /\ [][Step]_vars

\* the call made last left everything but the stall counter and cpu_ticks alone
Idle ==
    /\ PC = pre.PC /\ A = pre.A /\ X = pre.X /\ Y = pre.Y /\ SP = pre.SP
    /\ C = pre.C /\ Z = pre.Z /\ I = pre.I /\ D = pre.D /\ B = pre.B
    /\ V = pre.V /\ N = pre.N
    /\ ram = pre.ram /\ ppu = pre.ppu

(* C2: after a CPU write to port 0x4014 the stall counter is 512; each of    *)
(* the next 512 step() calls executes no instruction (PC, A, X, Y, SP,       *)
(* flags, RAM and PPU state unchanged), decrements the stall counter by      *)
(* exactly 1 and adds exactly 1 to cpu_ticks; the 513th step() is the first  *)
(* that fetches and executes the instruction at PC.                          *)
C2_DMAStall ==
    /\ (lastOp = "step" /\ ~err /\ WritesDMA(pre)) => stall = 512
    /\ (lastOp = "step" /\ ~err /\ dmaSeen /\ dmaAge \in 1..512) =>
          /\ Idle
          /\ stall = pre.stall - 1
          /\ stall = 512 - dmaAge
          /\ cpu_ticks = pre.cpu_ticks + 1
    /\ (lastOp = "step" /\ ~err /\ dmaSeen /\ dmaAge = 513) =>
          /\ pre.stall = 0 /\ stall = 0
          /\ PC = pre.PC + Instr(OpcodeAt(pre)).length
          /\ cpu_ticks = pre.cpu_ticks + Instr(OpcodeAt(pre)).ticks
          /\ (OpcodeAt(pre) = 232 => X = (pre.X + 1) % 256)

\* the 513th step after a DMA from PRG-ROM has executed the INX
C2_Witness ==
    /\ lastOp = "step" /\ ~err /\ dmaSeen /\ dmaAge = 513
    /\ OpcodeAt(pre) = 232 /\ X = (pre.X + 1) % 256
    /\ ArrGet(ppu.spr, 1) = 20

(* ---- cycles: one step of every opcode ----------------------------------- *)

\* steps the driver makes in SpecCycles
CycleSteps == 1

\* the operand bytes and index registers tried
CycleLows == {0, 128, 255}
CycleHighs == {0, 2, 128}
CycleIndexes == {0, 1, 255}

\* zero-page pointers for the indirect modes: 0x02FF at 0x00, 0x0310 at 0x80,
\* 0xFFF0 at 0xFF (its high byte wraps to 0x00)
CyclePointers == (0 :> 255) @@ (1 :> 2) @@ (128 :> 16) @@ (129 :> 3) @@ (255 :> 240)

InitCycles ==
    \E op \in Byte, lo \in CycleLows, hi \in CycleHighs,
       x \in CycleIndexes, y \in CycleIndexes, f \in BOOLEAN :
        Start([Loaded(At(32768, <<op, lo, hi>>) @@ CyclePointers, 32768)
                 EXCEPT !.X = x, !.Y = y, !.C = f, !.Z = f, !.V = f, !.N = f],
              CycleSteps)

SpecCycles == InitCycles /\ [][Step]_vars

\* the 256-byte page of an address
PageOf(a) == a \div 256

\* the operand of the instruction at PC, by the descriptor's length
OperandOf(m, length) ==
    IF length >= 3 THEN OperandLow(m) + 256 * OperandHigh(m)
    ELSE IF length = 2 THEN OperandLow(m)
    ELSE 0

\* the addressing modes that index a 16-bit base address
IndexedModes == {"ABSOLUTE_X", "ABSOLUTE_Y", "INDIRECT_INDEXED"}

\* the un-indexed base address of an indexed instruction
IndexedBase(m, mode, data) ==
    IF mode = "INDIRECT_INDEXED"
    THEN ArrGet(m.ram, data % 256) + 256 * ArrGet(m.ram, (data + 1) % 256)
    ELSE data

\* the index register an indexed mode adds
IndexOf(m, mode) == IF mode = "ABSOLUTE_X" THEN m.X ELSE m.Y

\* the indexed effective address lies on another page than its base
CrossesPage(base, index) == PageOf(base) # PageOf((base + index) % 65536)

\* the cycles a step of instruction ins with operand data should cost
ClaimedCycles(m, ins, data) ==
    ins.ticks
      + IntOf(ins.type \in BranchTypes /\ BranchTaken(m, ins.type))
      + IntOf(/\ ins.page_ticks = 1
              /\ ins.mode \in IndexedModes
              /\ CrossesPage(IndexedBase(m, ins.mode, data), IndexOf(m, ins.mode)))

(* C3: every non-stalled step() increases cpu_ticks by the descriptor's base *)
(* cost, plus 1 if the instruction is a conditional branch that was taken,   *)
(* plus 1 if the descriptor carries the page-cross penalty and the indexed   *)
(* effective address (absolute,X / absolute,Y / (indirect),Y) lies on a      *)
(* different page than the un-indexed base; this for every opcode whose      *)
(* descriptor carries the penalty.                                           *)
C3_Cycles ==
    Executed =>
        cpu_ticks - pre.cpu_ticks =
            ClaimedCycles(pre, Instr(OpcodeAt(pre)),
                          OperandOf(pre, Instr(OpcodeAt(pre)).length))

(* ---- branches: one step of every branch, taken and not ------------------ *)

\* steps the driver makes in SpecBranch
BranchSteps == 1

\* BPL, BMI, BVC, BVS, BCC, BCS, BNE, BEQ
BranchOpcodes == {16, 48, 80, 112, 144, 176, 208, 240}

\* where the branch sits: zero page, RAM, ROM, the end of a ROM page, the top
\* of the address space
BranchSites == {0, 512, 32768, 33008, 33021, 65534}

\* the operand byte of the branch
Displacements == {0, 1, 2, 13, 127, 128, 129, 240, 254, 255}

InitBranch ==
    \E op \in BranchOpcodes, p \in BranchSites, d \in Displacements,
       f \in [{"C", "Z", "V", "N"} -> BOOLEAN] :
        Start([Loaded(At(p, <<op, d>>), p)
                 EXCEPT !.C = f.C, !.Z = f.Z, !.V = f.V, !.N = f.N], BranchSteps)

SpecBranch == InitBranch /\ [][Step]_vars

\* where a taken branch at p with operand byte d should land
BranchTarget(p, d) ==
    IF d < 128 THEN (p + 2 + d) % 65536 ELSE (p + 2 + d - 256) % 65536

(* C4: for each conditional branch, a false condition costs the base 2       *)
(* cycles; a true condition costs 3 cycles if the target is on the same      *)
(* 256-byte page as PC + 2 and 4 cycles if it is on a different page.        *)
C4_BranchCycles ==
    \A op \in BranchOpcodes :
        ExecutedOpcode(op) =>
            cpu_ticks - pre.cpu_ticks =
                IF ~BranchTaken(pre, Instr(op).type) THEN 2
                ELSE IF PageOf(BranchTarget(pre.PC, OperandLow(pre))) = PageOf(pre.PC + 2)
                     THEN 3
                ELSE 4

(* C5: for every conditional branch at p with operand byte d, a branch whose *)
(* condition holds sets PC to (p + 2 + d) mod 65536 when d < 0x80 and to     *)
(* (p + 2 + d - 256) mod 65536 when d >= 0x80; otherwise PC becomes p + 2;   *)
(* no register, flag or memory byte other than PC changes in either case.    *)
C5_BranchTarget ==
    \A op \in BranchOpcodes :
        ExecutedOpcode(op) =>
            /\ PC = IF BranchTaken(pre, Instr(op).type)
                    THEN (IF OperandLow(pre) < 128
                          THEN (pre.PC + 2 + OperandLow(pre)) % 65536
                          ELSE (pre.PC + 2 + OperandLow(pre) - 256) % 65536)
                    ELSE pre.PC + 2
            /\ A = pre.A /\ X = pre.X /\ Y = pre.Y /\ SP = pre.SP
            /\ C = pre.C /\ Z = pre.Z /\ I = pre.I /\ D = pre.D /\ B = pre.B
            /\ V = pre.V /\ N = pre.N
            /\ ram = pre.ram /\ rom = pre.rom /\ ppu = pre.ppu

\* BNE with operand 0xF0 at 0x0000 was taken, backwards past address 0
C5_Witness ==
    /\ ExecutedOpcode(208) /\ pre.PC = 0 /\ OperandLow(pre) = 240 /\ ~pre.Z
    /\ PC = 65522

(* ---- stack: n pushes, then n pops --------------------------------------- *)

\* SP before the first push
StackStarts == {0, 1, 127, 253, 255}

\* how many bytes the driver pushes and then pops
StackDepths == {1, 2, 3, 255, 256, 257}

\* the first byte pushed
StackSeeds == {1, 201}

\* the k-th byte pushed (k from 0): 256 different bytes in a row
PushByte(seed, k) == (seed + 37 * k) % 256

\* bytes outside the stack page, to see that they stay
Bystanders == (255 :> 170) @@ (512 :> 187) @@ (2047 :> 204)

InitStack ==
    \E sp \in StackStarts, n \in StackDepths, seed \in StackSeeds :
        /\ Holds([Loaded(Bystanders, 32768) EXCEPT !.SP = sp])
        /\ FreshHistory([Loaded(Bystanders, 32768) EXCEPT !.SP = sp])
        /\ budget = 2 * n
        /\ plan = [n |-> n, sp |-> sp, seed |-> seed]
        /\ ports = NoPorts /\ loop = NoLoop /\ OthersIdle

\* an instruction pushes the next byte: cpu.stack_push(value)
Push ==
    /\ ~err
    /\ budget > plan.n
    /\ Becomes(StackPush(Machine, PushByte(plan.seed, Len(pushed))))
    /\ Record("push")
    /\ budget' = budget - 1
    /\ pushed' = Append(pushed, PushByte(plan.seed, Len(pushed)))
    /\ UNCHANGED <<popped, plan, dmaVars, busVars, loop, otherVars>>

\* an instruction pops a byte: cpu.stack_pop()
Pop ==
    /\ ~err
    /\ budget > 0 /\ budget <= plan.n
    /\ Becomes(StackPop(Machine).m)
    /\ Record("pop")
    /\ budget' = budget - 1
    /\ popped' = Append(popped, StackPop(Machine).v)
    /\ UNCHANGED <<pushed, plan, dmaVars, busVars, loop, otherVars>>

SpecStack == InitStack /\ [][Push \/ Pop]_vars

\* a sequence back to front
Reverse(s) == [i \in 1..Len(s) |-> s[Len(s) + 1 - i]]

\* the RAM cells outside 0x0100..0x01FF that differ between two RAMs
OutsideStackPage(r1, r2) ==
    {a \in ((DOMAIN r1) \cup (DOMAIN r2)) \ (256..511) : ArrGet(r1, a) # ArrGet(r2, a)}

(* C9: for any starting SP and any n in 1..256, n stack pushes followed by   *)
(* n stack pops return the pushed bytes in reverse (LIFO) order and leave SP *)
(* at its starting value; 256 consecutive pushes alone also return SP to its *)
(* starting value; every push and pop touches only RAM 0x0100..0x01FF.       *)
C9_Stack ==
    /\ (plan.n \in 1..256 /\ Len(pushed) = plan.n /\ Len(popped) = plan.n) =>
          popped = Reverse(pushed) /\ SP = plan.sp
    /\ (Len(pushed) = 256 /\ popped = <<>>) => SP = plan.sp
    /\ lastOp \in {"push", "pop"} =>
          /\ OutsideStackPage(ram, pre.ram) = {}
          /\ rom = pre.rom /\ ppu = pre.ppu

\* 256 bytes pushed from SP = 0x01 and popped again
C9_Witness ==
    /\ plan.n = 256 /\ plan.sp = 1 /\ Len(popped) = 256
    /\ popped[1] = pushed[256] /\ popped[256] = pushed[1] /\ pushed[1] # pushed[256]
    /\ SP = 1

(* ---- JSR and RTS: a call and the return right after it ------------------ *)

\* steps the driver makes in SpecJSR
JSRSteps == 2

\* where the JSR sits: RAM, ROM, the end of a ROM page, the top of the
\* address space
JSRSites == {512, 32768, 33022, 65533, 65534}

\* where the JSR goes (an RTS is there): RAM, ROM
JSRTargets == {768, 36864, 37119}

\* SP before the JSR
JSRStacks == {0, 1, 253, 255}

InitJSR ==
    \E p \in JSRSites, t \in JSRTargets, sp \in JSRStacks :
        Start([Loaded(At(p, <<32, t % 256, t \div 256>>) @@ At(t, <<96>>), p)
                 EXCEPT !.SP = sp], JSRSteps)

SpecJSR == InitJSR /\ [][Step]_vars

(* C10: for every JSR at address p and every target t, step() on the JSR     *)
(* pushes the high byte and then the low byte of p + 2 and sets PC = t; an   *)
(* RTS executed immediately afterwards sets PC = p + 3 and restores SP to    *)
(* its value before the JSR.                                                 *)
C10_JSR_RTS ==
    /\ ExecutedOpcode(32) =>
          /\ StackByte(Machine, pre.SP) = ((pre.PC + 2) \div 256) % 256
          /\ StackByte(Machine, pre.SP - 1) = (pre.PC + 2) % 256
          /\ PC = OperandLow(pre) + 256 * OperandHigh(pre)
    /\ (ExecutedOpcode(96) /\ lastOp2 = "step" /\ pre2.stall = 0 /\ OpcodeAt(pre2) = 32) =>
          /\ PC = pre2.PC + 3
          /\ SP = pre2.SP

(* ---- BRK: one step of a BRK from a range of CPU states ------------------ *)

\* steps the driver makes in SpecBRK
BRKSteps == 1

\* where the BRK sits: RAM, ROM, the last byte of a ROM page, the low byte of
\* the reset vector
BRKSites == {512, 32768, 33023, 65532}

\* SP before the BRK
BRKStacks == {0, 1, 2, 253, 255}

\* the handler address in the IRQ/BRK vector
BRKHandlers == {36864, 4660}

InitBRK ==
    \E p \in BRKSites, sp \in BRKStacks, handler \in BRKHandlers,
       f \in [{"C", "Z", "I", "D", "V", "N"} -> BOOLEAN] :
        Start([Loaded(At(IRQ_BRK_VECTOR, <<handler % 256, handler \div 256>>), p)
                 EXCEPT !.SP = sp, !.C = f.C, !.Z = f.Z, !.I = f.I, !.D = f.D,
                        !.V = f.V, !.N = f.N], BRKSteps)

SpecBRK == InitBRK /\ [][Step]_vars

\* the flags of machine m as a status byte with bits 4 and 5 set
FlagsWithBreak(m) ==
    IntOf(m.C) + 2 * IntOf(m.Z) + 4 * IntOf(m.I) + 8 * IntOf(m.D) + 16 + 32
      + 64 * IntOf(m.V) + 128 * IntOf(m.N)

(* C11: step() on BRK at address p pushes the high byte then the low byte of *)
(* p + 2, then the status byte with the Break bit (bit 4) and the reserved   *)
(* bit (bit 5) set; afterwards the Break flag is clear, Interrupt-disable is *)
(* set, SP has decreased by 3 (mod 256), PC is the 16-bit value stored at    *)
(* 0xFFFE/0xFFFF, and cpu_ticks has increased by 7.                          *)
C11_BRK ==
    ExecutedOpcode(0) =>
        /\ StackByte(Machine, pre.SP) = ((pre.PC + 2) \div 256) % 256
        /\ StackByte(Machine, pre.SP - 1) = (pre.PC + 2) % 256
        /\ StackByte(Machine, pre.SP - 2) = FlagsWithBreak(pre)
        /\ ~B
        /\ I
        /\ SP = (pre.SP - 3) % 256
        /\ PC = ReadMemory(pre, 65534, "ABSOLUTE").v
                  + 256 * ReadMemory(pre, 65535, "ABSOLUTE").v
        /\ cpu_ticks = pre.cpu_ticks + 7

\* a BRK at the last byte of a page, with SP = 0x01, has run: the return
\* address is on the next page and SP has wrapped
C11_Witness ==
    /\ ExecutedOpcode(0) /\ pre.PC = 33023 /\ pre.SP = 1 /\ pre.C /\ ~pre.I
    /\ StackByte(Machine, 1) = 129 /\ StackByte(Machine, 0) = 1
    /\ SP = 254 /\ PC = 4660

(* ---- RTI: an interrupt entry (NMI or BRK) and the RTI of its handler ---- *)

\* calls the driver makes in SpecRTI
RTICalls == 2

\* where the interrupt arrives (a BRK is there): RAM, ROM, the last byte of a
\* ROM page
RTISites == {512, 32768, 33023}

\* the handler, which both vectors point at and which starts with RTI: ROM, RAM
RTIHandlers == {36864, 768}

\* SP at the interrupt entry
RTIStacks == {0, 1, 2, 253, 255}

\* what earlier pushes left at both ends of the stack page
StackLeftovers == At(256, <<146, 195, 52, 18>>) @@ At(508, <<86, 227, 120, 68>>)

InitRTI ==
    \E h \in RTIHandlers, p \in RTISites \cup RTIHandlers, sp \in RTIStacks,
       f \in [{"C", "Z", "I", "D", "V", "N"} -> BOOLEAN] :
        Start([Loaded(At(NMI_VECTOR, <<h % 256, h \div 256>>)
                        @@ At(IRQ_BRK_VECTOR, <<h % 256, h \div 256>>)
                        @@ At(h, <<64>>) @@ StackLeftovers, p)
                 EXCEPT !.SP = sp, !.C = f.C, !.Z = f.Z, !.I = f.I, !.D = f.D,
                        !.V = f.V, !.N = f.N], RTICalls)

SpecRTI == InitRTI /\ [][Step \/ TriggerNMI]_vars

\* the flags C, Z, D, V, N and SP are those of machine m
Restored(m) ==
    /\ C = m.C /\ Z = m.Z /\ D = m.D /\ V = m.V /\ N = m.N
    /\ SP = m.SP

(* C12: RTI pops the status byte first and then PC low and PC high, setting  *)
(* PC to exactly the popped 16-bit address (no increment); an interrupt      *)
(* entry (trigger_NMI or BRK) followed immediately by RTI restores the flags *)
(* C, Z, D, V, N and SP to their values at the interrupt entry and sets PC   *)
(* to the address that was pushed.                                           *)
C12_RTI ==
    /\ ExecutedOpcode(64) =>
          /\ C = BoolOf(Bit(StackByte(pre, pre.SP + 1), 0))
          /\ Z = BoolOf(Bit(StackByte(pre, pre.SP + 1), 1))
          /\ I = BoolOf(Bit(StackByte(pre, pre.SP + 1), 2))
          /\ D = BoolOf(Bit(StackByte(pre, pre.SP + 1), 3))
          /\ V = BoolOf(Bit(StackByte(pre, pre.SP + 1), 6))
          /\ N = BoolOf(Bit(StackByte(pre, pre.SP + 1), 7))
          /\ PC = StackByte(pre, pre.SP + 2) + 256 * StackByte(pre, pre.SP + 3)
          /\ SP = (pre.SP + 3) % 256
    /\ (ExecutedOpcode(64) /\ lastOp2 = "nmi") =>
          Restored(pre2) /\ PC = pre2.PC
    /\ (ExecutedOpcode(64) /\ lastOp2 = "step" /\ pre2.stall = 0 /\ OpcodeAt(pre2) = 0) =>
          Restored(pre2) /\ PC = pre2.PC + 2

\* a BRK at the last byte of a page with SP = 0x01, then the handler's RTI
C12_Witness ==
    /\ ExecutedOpcode(64) /\ lastOp2 = "step" /\ OpcodeAt(pre2) = 0
    /\ pre2.PC = 33023 /\ pre2.SP = 1 /\ pre2.N /\ pre2.C /\ ~pre2.Z
    /\ PC = 33025 /\ SP = 1 /\ N /\ C /\ ~Z

(* ---- PC range: programs at the top of the address space ----------------- *)

\* calls the driver makes in SpecPC
PCCalls == 3

\* SP at the start
PCStacks == {0, 1, 253, 255}

\* the programs: NOP at 0xFFFF; LDA #1 at 0xFFFE; BNE +0 at 0xFFFE; an RTS at
\* 0x8000 whose return address on the stack is 0xFFFF; JSR 0x9000 at 0xFFFD
\* with an RTS at 0x9000
PCPrograms ==
    {[cells |-> At(65535, <<234>>), pc |-> 65535],
     [cells |-> At(65534, <<169, 1>>), pc |-> 65534],
     [cells |-> At(65534, <<208, 0>>), pc |-> 65534],
     [cells |-> At(32768, <<96>>) @@ [a \in 256..511 |-> 255], pc |-> 32768],
     [cells |-> At(65533, <<32, 0, 144>>) @@ At(36864, <<96>>), pc |-> 65533]}

InitPC ==
    \E prog \in PCPrograms, sp \in PCStacks :
        Start([Loaded(prog.cells, prog.pc) EXCEPT !.SP = sp], PCCalls)

SpecPC == InitPC /\ [][Step \/ TriggerNMI]_vars

(* C13: after any sequence of step() and trigger_NMI() calls from a CPU      *)
(* whose PC starts in 0..0xFFFF, PC is in 0..0xFFFF.                         *)
C13_PCRange == PC \in 0..65535

(* ---- registers: every opcode from a range of register values ------------ *)

\* calls the driver makes in SpecRegisters
RegisterCalls == 2

\* the operand bytes <<low, high>>: zero page, RAM, the joypad port 0x4016,
\* the PPU status port 0x2002, and the PPU port 0x2000 whose read gives None
RegisterOperands == {<<0, 0>>, <<255, 0>>, <<255, 2>>, <<22, 64>>, <<2, 32>>, <<0, 32>>}

\* register values at the start
RegisterValues == {0, 128, 255}
RegisterIndexes == {0, 255}
RegisterStacks == {0, 255}

InitRegisters ==
    \E op \in Byte, operand \in RegisterOperands, a \in RegisterValues,
       xy \in RegisterIndexes, sp \in RegisterStacks, c \in BOOLEAN :
        Start([Loaded(At(32768, <<op, operand[1], operand[2]>>) @@ CyclePointers, 32768)
                 EXCEPT !.A = a, !.X = xy, !.Y = 255 - xy, !.SP = sp, !.C = c],
              RegisterCalls)

SpecRegisters == InitRegisters /\ [][Step \/ TriggerNMI]_vars

(* C14: after any sequence of step() and trigger_NMI() calls in which every  *)
(* bus read returns a byte value, A, X, Y and SP are each in 0..255 (a load  *)
(* whose read gave no byte leaves None in its register and raises).          *)
C14_ByteRegisters ==
    /\ A \in Byte \/ (err /\ A = None)
    /\ X \in Byte \/ (err /\ X = None)
    /\ Y \in Byte \/ (err /\ Y = None)
    /\ SP \in Byte

\* a PHA with SP = 0x00 has wrapped SP to 0xFF
C14_Witness ==
    ExecutedOpcode(72) /\ pre.SP = 0 /\ SP = 255 /\ pre.A = 128 /\ StackByte(Machine, 0) = 128

(* ---- RAM: bus reads and writes across the four mirrors of the 2 KiB ---- *)

\* bus accesses the driver makes in SpecRAM
RAMCalls == 2

\* addresses in the RAM window: both ends of each mirror, and one outside it
RAMAddresses == {0, 1, 2047, 2048, 4097, 6143, 8191, 8193}

\* bytes written
RAMBytes == {0, 90, 255}

\* what the RAM holds before the first access
RAMCells == (0 :> 17) @@ (1 :> 34) @@ (2047 :> 51) @@ (256 :> 68)

InitRAM ==
    StartBus(Loaded(RAMCells, 32768), RAMCalls, RAMAddresses, RAMAddresses, RAMBytes)

SpecRAM == InitRAM /\ [][BusRead \/ BusWrite]_vars

\* the window 0x0000..0x1FFF and the addresses in it that share a's cell
RAMWindow == 0..8191
MirrorsOf(a) == {(a % 2048) + 2048 * k : k \in 0..3}

\* C15: a write of v to an address a in 0x0000..0x1FFF makes a read of every
\* address b in the window with b mod 0x800 = a mod 0x800 return v, and changes
\* no other RAM cell; a read through the bus that follows the write agrees
C15_RAMMirror ==
    /\ (lastOp = "write" /\ access.address \in RAMWindow) =>
          /\ \A b \in MirrorsOf(access.address) :
                ReadMemory(Machine, b, "ABSOLUTE").v = access.value
          /\ \A c \in (DOMAIN ram \cup DOMAIN pre.ram) \ {access.address % 2048} :
                ArrGet(ram, c) = ArrGet(pre.ram, c)
          /\ (DOMAIN ram \cup DOMAIN pre.ram) \subseteq 0..2047
    /\ (lastOp = "read" /\ lastOp2 = "write"
        /\ access.address \in RAMWindow /\ access2.address \in RAMWindow
        /\ access.address % 2048 = access2.address % 2048) =>
          access.value = access2.value

\* a byte written through the last mirror is read back through the first,
\* over the byte the cell held before
C15_Witness ==
    /\ lastOp = "read" /\ lastOp2 = "write"
    /\ access2.address = 6143 /\ access2.value = 90
    /\ access.address = 2047 /\ access.value = 90
    /\ ArrGet(pre2.ram, 2047) = 51
    /\ ArrGet(ram, 0) = 17

(* ---- PPU window: bus accesses at 0x2000..0x3FFF and on either side ----- *)

\* bus accesses the driver makes in SpecPPUBus
PPUBusCalls == 2

\* addresses at both ends of the window, in its mirrors and just outside it
PPUBusAddresses == {8191, 8192, 8194, 8198, 8199, 8200, 12294, 16378, 16382, 16383, 16384}

\* bytes written
PPUBusBytes == {18, 255}

InitPPUBus ==
    StartBus(Loaded(RAMCells, 32768), PPUBusCalls, PPUBusAddresses, PPUBusAddresses,
             PPUBusBytes)

SpecPPUBus == InitPPUBus /\ [][BusRead \/ BusWrite]_vars

\* the last bus access went to PPU register `port` and nowhere else
RoutedRead(port) ==
    /\ ppu = PPUReadRegister(pre.ppu, port).p
    /\ access.value = PPUReadRegister(pre.ppu, port).v
    /\ err = PPUReadRegister(pre.ppu, port).err
    /\ ram = pre.ram /\ rom = pre.rom
RoutedWrite(port) ==
    /\ ppu = PPUWriteRegister(pre.ppu, port, access.value).p
    /\ err = PPUWriteRegister(pre.ppu, port, access.value).err
    /\ ram = pre.ram /\ rom = pre.rom

\* the routing of the last bus access for a window first..last of PPU registers
RoutedWithin(first, last) ==
    /\ (lastOp = "read" /\ access.address \in first..last) =>
          RoutedRead(8192 + (access.address % 8))
    /\ (lastOp = "write" /\ access.address \in first..last) =>
          RoutedWrite(8192 + (access.address % 8))
    /\ (lastOp \in {"read", "write"} /\ access.address \notin first..last) =>
          ppu = pre.ppu

\* C16: every CPU read or write of an address a in 0x2000..0x3FFF, both ends
\* included, is routed to PPU register 0x2000 + (a mod 8), and no access
\* outside the window reaches the PPU
C16_PPUWindow == RoutedWithin(8192, 16383)

\* the same with the window ending at 0x3FFE
C16_WindowBelow3FFF == RoutedWithin(8192, 16382)

\* the address port is written through its last mirror, 0x3FFE
C16_Reached ==
    /\ lastOp = "write" /\ access.address = 16382 /\ access.value = 18
    /\ ppu.addr = 18 * 256 /\ ppu.addr_write_latch

(* ---- PRG-ROM: bus reads of one-bank and two-bank cartridges ------------ *)

\* bus reads the driver makes in SpecROM
ROMCalls == 2

\* a PRG-ROM image of two 16 KiB banks: cells maps CPU addresses in
\* 0x8000..0xFFFF to bytes
Image2(cells) ==
    [o \in {a - 32768 : a \in {x \in DOMAIN cells : cells[x] # 0}} |-> cells[o + 32768]]

\* addresses read: both ends of each 16 KiB half, and a pair 0x4000 apart inside
ROMAddresses == {32768, 32769, 37428, 49151, 49152, 49153, 53812, 65535}

\* what varies between the cartridges tried
ROMSeeds == {0, 1}

\* the bytes of the first bank and of the second
ROMLow(seed) == At(32768, <<17 + seed, 34>>) @@ (37428 :> 51) @@ (49151 :> 68 + seed)
ROMHigh(seed) == At(49152, <<85, 102 + seed>>) @@ (53812 :> 119) @@ (65535 :> 136)

\* the cartridge with `banks` PRG banks
ROMOf(banks, seed) ==
    IF banks = 1 THEN NewROM(1, Image1(ROMLow(seed) @@ ResetTo(32768)))
    ELSE NewROM(2, Image2(ROMLow(seed) @@ ROMHigh(seed) @@ ResetTo(32768)))

InitROM ==
    \E banks \in {1, 2}, seed \in ROMSeeds :
        StartBus(NewCPU(ROMOf(banks, seed)), ROMCalls, ROMAddresses, {}, {})

SpecROM == InitROM /\ [][BusRead]_vars

\* C17: with one PRG bank a read of a in 0x8000..0xBFFF and a read of a + 0x4000
\* return the same byte, the one at offset (a - 0x8000) mod 16384 of the PRG
\* data; with two banks a read of a in 0x8000..0xFFFF returns the byte at
\* offset a - 0x8000
C17_PRGRead ==
    /\ (lastOp = "read" /\ rom.prg_rom_size = 1 /\ access.address \in 32768..49151) =>
          /\ ~err
          /\ access.value = ArrGet(rom.prg_rom, (access.address - 32768) % 16384)
          /\ ReadMemory(Machine, access.address + 16384, "ABSOLUTE").v = access.value
    /\ (lastOp = "read" /\ rom.prg_rom_size = 1 /\ access.address \in 49152..65535) =>
          /\ ~err
          /\ access.value = ArrGet(rom.prg_rom, (access.address - 32768) % 16384)
          /\ ReadMemory(Machine, access.address - 16384, "ABSOLUTE").v = access.value
    /\ (lastOp = "read" /\ rom.prg_rom_size = 2 /\ access.address \in 32768..65535) =>
          /\ ~err
          /\ access.value = ArrGet(rom.prg_rom, access.address - 32768)
    /\ rom = pre.rom

\* the byte at the end of the single bank is read at 0xBFFF and then at 0xFFFF
C17_Witness ==
    /\ lastOp = "read" /\ lastOp2 = "read" /\ rom.prg_rom_size = 1
    /\ access2.address = 49151 /\ access2.value = 69
    /\ access.address = 65535 /\ access.value = 69
    /\ ArrGet(rom.prg_rom, 16383) = 69

\* with two banks the two halves hold different bytes
C17_TwoBanks ==
    /\ lastOp = "read" /\ lastOp2 = "read" /\ rom.prg_rom_size = 2
    /\ access2.address = 49151 /\ access2.value = 68
    /\ access.address = 65535 /\ access.value = 136

(* ---- PRG-RAM: bus writes and reads at 0x6000..0x7FFF and around it ----- *)

\* bus accesses the driver makes in SpecPRGRAM
PRGRAMCalls == 3

\* addresses at both ends of the PRG-RAM window, below it, and in PRG-ROM
PRGRAMAddresses == {24575, 24576, 24577, 32767, 32768, 65535}

\* bytes written
PRGRAMBytes == {18, 52}

InitPRGRAM ==
    StartBus(Loaded(RAMCells, 32768), PRGRAMCalls, PRGRAMAddresses, PRGRAMAddresses,
             PRGRAMBytes)

SpecPRGRAM == InitPRGRAM /\ [][BusRead \/ BusWrite]_vars

\* the PRG-RAM window of the CPU bus
PRGRAMWindow == 24576..32767

\* C18: a CPU write of v to a in 0x6000..0x7FFF is stored at PRG-RAM offset
\* a - 0x6000; a read of a returns v until a is written again; PRG-RAM offset 0
\* holds the last value the CPU wrote to 0x6000
C18_PRGRAM ==
    /\ (lastOp = "write" /\ access.address \in PRGRAMWindow) =>
          ArrGet(rom.prg_ram, access.address - 24576) = access.value
    /\ \A a \in (DOMAIN written) \cap PRGRAMWindow :
          ReadMemory(Machine, a, "ABSOLUTE").v = written[a]
    /\ (lastOp = "read" /\ access.address \in (DOMAIN written) \cap PRGRAMWindow) =>
          access.value = written[access.address]
    /\ (24576 \in DOMAIN written) => ArrGet(rom.prg_ram, 0) = written[24576]

\* the same as long as the CPU has written nothing at 0x8000 or above
C18_WithoutROMWrites ==
    (\A a \in DOMAIN written : a < 32768) => C18_PRGRAM

\* 0x6000 is written, then 0x8000, and 0x6000 is read back
C18_Reached ==
    /\ lastOp = "read" /\ access.address = 24576 /\ access.value = 52
    /\ lastOp2 = "write" /\ access2.address = 32768 /\ access2.value = 52
    /\ 24576 \in DOMAIN written /\ written[24576] = 18

(* ---- status port: reads of 0x2002 between address writes --------------- *)

\* calls the driver makes in SpecStatus
StatusCalls == 3

\* status bytes the video progression leaves: vertical blank alone, every bit,
\* every bit but vertical blank
PPUStatuses == {128, 255, 127}

\* the drive loop's ppu.step() calls move the PPU along its scanlines, and the
\* status byte changes with them (vertical blank begins or ends)
PPUProgress ==
    /\ ~err
    /\ budget > 0
    /\ \E status \in PPUStatuses : ppu' = [ppu EXCEPT !.status = status]
    /\ Record("ppu")
    /\ budget' = budget - 1
    /\ UNCHANGED <<cpuVars, rom, err, dmaVars, stackVars, busVars, loop, otherVars>>

\* the status port and one of its mirrors, and the address port
StatusReads == {8194, 16378}
StatusWrites == {8198}
StatusBytes == {18, 52}

InitStatus ==
    StartBus(Loaded(RAMCells, 32768), StatusCalls, StatusReads, StatusWrites, StatusBytes)

SpecStatus == InitStatus /\ [][BusRead \/ BusWrite \/ PPUProgress]_vars

\* C19: a read of the status port returns the status byte as it was before the
\* read, clears bit 7 of the stored status, leaves its other seven bits alone,
\* and resets the address latch: the address write that follows is taken as
\* the first of a pair
C19_StatusRead ==
    /\ (lastOp = "read" /\ PortOf(access.address) = 8194) =>
          /\ access.value = pre.ppu.status
          /\ Bit(ppu.status, 7) = 0
          /\ ppu.status % 128 = pre.ppu.status % 128
          /\ ~ppu.addr_write_latch
          /\ ppu = [pre.ppu EXCEPT !.status = ppu.status, !.addr_write_latch = FALSE]
    /\ (lastOp = "write" /\ PortOf(access.address) = 8198
        /\ lastOp2 = "read" /\ PortOf(access2.address) = 8194) =>
          /\ ppu.addr \div 256 = access.value
          /\ ppu.addr % 256 = pre.ppu.addr % 256

\* the status port is read with every status bit set and half an address
\* written
C19_Witness ==
    /\ lastOp = "read" /\ access.address = 8194 /\ access.value = 255
    /\ pre.ppu.status = 255 /\ ppu.status = 127
    /\ pre.ppu.addr_write_latch /\ ~ppu.addr_write_latch

(* ---- address port: pairs of 0x2006 writes among other accesses --------- *)

\* bus accesses the driver makes in SpecAddr
AddrCalls == 4

\* the status and data ports are read; the address port, one of its mirrors,
\* the control, scroll and data ports are written
AddrReads == {8194, 8199}
AddrWrites == {8192, 8197, 8198, 8199, 16382}
AddrBytes == {18, 255}

InitAddr ==
    StartBus(Loaded(RAMCells, 32768), AddrCalls, AddrReads, AddrWrites, AddrBytes)

SpecAddr == InitAddr /\ [][BusRead \/ BusWrite]_vars

\* the two bytes of the 16-bit address register
AddrHigh(p) == (p.addr \div 256) % 256
AddrLow(p) == p.addr % 256

\* C20: counting the writes to 0x2006 since power-on or the last status read,
\* an odd-numbered write replaces only the high byte of the address register
\* and an even-numbered write only the low byte; writing h then l leaves the
\* address h * 256 + l; no other register access changes the latch
C20_AddressLatch ==
    /\ ppu.addr_write_latch = (addrWrites % 2 = 1)
    /\ (lastOp = "write" /\ PortOf(access.address) = 8198 /\ addrWrites % 2 = 1) =>
          /\ AddrHigh(ppu) = access.value
          /\ AddrLow(ppu) = AddrLow(pre.ppu)
    /\ (lastOp = "write" /\ PortOf(access.address) = 8198 /\ addrWrites % 2 = 0) =>
          /\ AddrLow(ppu) = access.value
          /\ AddrHigh(ppu) = AddrHigh(pre.ppu)
    /\ (lastOp = "write" /\ PortOf(access.address) = 8198 /\ addrWrites % 2 = 0
        /\ lastOp2 = "write" /\ PortOf(access2.address) = 8198) =>
          ppu.addr = access2.value * 256 + access.value
    /\ (lastOp \in {"read", "write"} /\ PortOf(access.address) \notin {8194, 8198}) =>
          ppu.addr_write_latch = pre.ppu.addr_write_latch

\* 0x12 then 0xFF are written to the address port after a scroll write and a
\* control write
C20_Witness ==
    /\ lastOp = "write" /\ access.address = 8198 /\ access.value = 255
    /\ lastOp2 = "write" /\ access2.address = 8198 /\ access2.value = 18
    /\ addrWrites = 2 /\ ppu.addr = 18 * 256 + 255
    /\ 8197 \in DOMAIN written /\ 8192 \in DOMAIN written

\* the third write to the address port finds the register past 0xFFFF after a
\* data-port access, and replaces the high byte
C20_ThirdWrite ==
    /\ lastOp = "write" /\ access.address = 8198 /\ access.value = 18
    /\ addrWrites = 3 /\ pre.ppu.addr = 65536 /\ ppu.addr = 18 * 256

(* ---- data port: 0x2007 accesses after control-port writes -------------- *)

\* bus accesses the driver makes in SpecData
DataCalls == 3

\* the data port is read and written, here and through its mirror 0x3FF7; the
\* control and address ports are written
DataReads == {8199, 16375}
DataWrites == {8192, 8198, 8199, 16375}

\* bytes written: bit 2 set, and every bit but bit 2
DataBytes == {4, 251}

InitData ==
    StartBus(Loaded(RAMCells, 32768), DataCalls, DataReads, DataWrites, DataBytes)

SpecData == InitData /\ [][BusRead \/ BusWrite]_vars

\* the increment the last control-port write asked for: 1 before any
ConfiguredIncrement ==
    IF 8192 \in DOMAIN written /\ Bit(written[8192], 2) = 1 THEN 32 ELSE 1

\* C21: every read and every write of the data port (0x2007) increases the PPU
\* address register by the configured increment: 32 if bit 2 of the most
\* recent control-port write was set, 1 otherwise
C21_DataIncrement ==
    (lastOp \in {"read", "write"} /\ PortOf(access.address) = 8199) =>
        ppu.addr = pre.ppu.addr + ConfiguredIncrement

\* a data-port write advances the address by 32 after the control port was
\* written with bit 2 set, from an address the address port gave
C21_Witness ==
    /\ lastOp = "write" /\ access.address = 8199
    /\ 8192 \in DOMAIN written /\ written[8192] = 4
    /\ pre.ppu.addr = 251 * 256 /\ ppu.addr = 251 * 256 + 32

\* a control write with bit 2 clear after one with bit 2 set brings the
\* increment back to 1 for a data-port read
C21_BackToOne ==
    /\ lastOp = "read" /\ access.address = 16375
    /\ lastOp2 = "write" /\ access2.address = 8192 /\ access2.value = 251
    /\ pre2.ppu.address_increment = 32 /\ ppu.addr = pre.ppu.addr + 1

(* ---- data-port reads: the read buffer below and inside the palette ----- *)

\* data-port reads the driver makes in SpecVideo
VideoCalls == 4

\* what the video memory holds: bytes around the start of the palette region,
\* 0x1000 below it, and at the same places one 0x4000 mirror up
VideoCells ==
    (8192 :> 33) @@ (8193 :> 34) @@ (8224 :> 35)
    @@ (16127 :> 49) @@ (16128 :> 65) @@ (16129 :> 66) @@ (16160 :> 67)
    @@ (12032 :> 81) @@ (12033 :> 82) @@ (12064 :> 83)
    @@ (16400 :> 97) @@ (16401 :> 98) @@ (32512 :> 113) @@ (28416 :> 114)

\* a PPU with video memory holding cells
VideoPPU(cells) == [x \in (DOMAIN NewPPU) \cup {"memory"} |->
                       IF x = "memory" THEN cells ELSE NewPPU[x]]

\* addresses the address port has set before the reads
VideoStarts == {8192, 16127, 16128, 16400, 32511, 32512}

InitVideo ==
    \E d \in VideoStarts, increment \in {1, 32} :
        StartBus([Loaded(RAMCells, 32768) EXCEPT
                     !.ppu = [VideoPPU(VideoCells) EXCEPT
                                 !.addr = d, !.address_increment = increment]],
                 VideoCalls, {8199, 16375}, {}, {})

SpecVideo == InitVideo /\ [][BusRead]_vars

\* the last access was a data-port read
DataRead == lastOp = "read" /\ PortOf(access.address) = 8199

C22_Palette ==
    /\ DataRead /\ lastOp2 = "read"
    /\ pre2.ppu.addr = 16127 /\ pre.ppu.addr = 16128
    /\ pre.ppu.buffer2007 = 49 /\ access.value = 65 /\ ppu.buffer2007 = 81

(* ---- controller port: strobe writes and reads of 0x4016 ---------------- *)

\* bus accesses the driver makes in SpecJoypad
JoypadCalls == 11

\* buttons held, in the order A, B, Select, Start, Up, Down, Left, Right
JoypadPatterns == {<<TRUE, FALSE, TRUE, TRUE, FALSE, TRUE, FALSE, FALSE>>,
                   <<FALSE, TRUE, FALSE, FALSE, TRUE, FALSE, TRUE, TRUE>>}

\* the joypad with the buttons of pattern held
Held(pattern) ==
    [NewJoypad EXCEPT !.a = pattern[1], !.b = pattern[2], !.select = pattern[3],
                      !.start = pattern[4], !.up = pattern[5], !.down = pattern[6],
                      !.left = pattern[7], !.right = pattern[8]]

InitJoypad ==
    \E pattern \in JoypadPatterns :
        StartBus([Loaded(RAMCells, 32768) EXCEPT !.joypad1 = Held(pattern)],
                 JoypadCalls, {16406}, {16406}, {0, 1})

SpecJoypad == InitJoypad /\ [][BusRead \/ BusWrite]_vars

\* the button the k-th read after a strobe reports, as 0 or 1
ButtonBit(k) ==
    IntOf(CASE k = 1 -> joypad1.a [] k = 2 -> joypad1.b [] k = 3 -> joypad1.select
            [] k = 4 -> joypad1.start [] k = 5 -> joypad1.up [] k = 6 -> joypad1.down
            [] k = 7 -> joypad1.left [] k = 8 -> joypad1.right)

\* the last access was a read of 0x4016 after a high-to-low strobe write
PadRead == lastOp = "read" /\ access.address = 16406 /\ padReads # None

\* what the k-th read after the strobe returns
PadReport ==
    IF padReads <= 8 THEN access.value % 2 = ButtonBit(padReads)
    ELSE access.value = 65

\* C23 as stated: after a write that takes the strobe from high to low the
\* next eight reads of 0x4016 report A, B, Select, Start, Up, Down, Left, Right
\* in bit 0, and every further read before the next such write returns 0x41
C23_Joypad == PadRead => PadReport

\* C23: the same for the reads made while the strobe is still low; a read made
\* after the strobe was raised again returns the state of A and nothing else
C23_JoypadStrobeLow ==
    /\ (PadRead /\ ~StrobeHigh) => PadReport
    /\ (lastOp = "read" /\ access.address = 16406 /\ StrobeHigh) =>
          access.value = IntOf(joypad1.a)

\* the ninth read after a strobe returns 0x41
C23_Witness ==
    /\ PadRead /\ ~StrobeHigh /\ padReads = 9 /\ access.value = 65
    /\ pre.joypad1.read_count = 8 /\ budget = 0

\* a read after the strobe was raised again, when eight have not been made
C23_StrobeRaised ==
    /\ PadRead /\ StrobeHigh /\ padReads = 2 /\ ~joypad1.a /\ joypad1.b
    /\ access.value = 0

(* ---- unofficial combined opcodes: one step of each LAX and DCP --------- *)

\* steps the driver makes in SpecUnofficial
UnofficialSteps == 1

\* the opcodes whose kind is LAX, and those whose kind is DCP
LAXOpcodes == {163, 167, 171, 175, 179, 183, 191}
DCPOpcodes == {195, 199, 207, 211, 215, 219, 223}

\* the operand's low byte, the byte in memory and the accumulator before
UnofficialOperands == {16, 128}
UnofficialBytes == {0, 90, 128}
UnofficialAccumulators == {0, 89, 255}

InitUnofficial ==
    \E op \in LAXOpcodes \cup DCPOpcodes, lo \in UnofficialOperands,
       v \in UnofficialBytes, a \in UnofficialAccumulators :
        Start([Loaded(At(32768, <<op, lo, 2>>) @@ (lo :> v) @@ (512 + lo :> v), 32768)
                  EXCEPT !.A = a],
              UnofficialSteps)

SpecUnofficial == InitUnofficial /\ [][Step]_vars

\* the address a zero-page or absolute opcode names, from the bytes after it
NamedAddress(m, absolute) ==
    IF absolute THEN OperandLow(m) + 256 * OperandHigh(m) ELSE OperandLow(m)

\* A and X hold v, and Zero and Negative are set from it
LoadedAX(v) == A = v /\ X = v /\ Z = (v = 0) /\ N = (v >= 128)

\* the byte at address a is one less than before, and Carry, Zero and Negative
\* are those of comparing the A of before with it
DecrementedCompared(a) ==
    /\ ArrGet(ram, a) = (ArrGet(pre.ram, a) - 1) % 256
    /\ C = (pre.A >= ArrGet(ram, a))
    /\ Z = (pre.A = ArrGet(ram, a))
    /\ N = ((pre.A - ArrGet(ram, a)) % 256 >= 128)

\* C24: stepping a LAX opcode loads the operand into both A and X and sets
\* Zero and Negative from it; stepping a DCP opcode decrements the memory
\* operand and then sets Carry, Zero and Negative as a compare of A against
\* the decremented value (the zero-page, absolute and immediate opcodes)
C24_Combined ==
    /\ ExecutedOpcode(167) => LoadedAX(ArrGet(pre.ram, NamedAddress(pre, FALSE)))
    /\ ExecutedOpcode(175) => LoadedAX(ArrGet(pre.ram, NamedAddress(pre, TRUE)))
    /\ ExecutedOpcode(171) => LoadedAX(OperandLow(pre))
    /\ ExecutedOpcode(199) => DecrementedCompared(NamedAddress(pre, FALSE))
    /\ ExecutedOpcode(207) => DecrementedCompared(NamedAddress(pre, TRUE))

\* what step() does with these opcodes: registers, flags, memory and PC stay,
\* and the ticks of the descriptor are added
C24_NoEffect ==
    (Executed /\ OpcodeAt(pre) \in LAXOpcodes \cup DCPOpcodes) =>
        Machine = [pre EXCEPT !.cpu_ticks = cpu_ticks, !.page_crossed = page_crossed]

\* a step of LAX zero page over a byte that is not in A
C24_Reached ==
    /\ ExecutedOpcode(167) /\ ArrGet(pre.ram, 16) = 90 /\ pre.A = 0
    /\ A = 0 /\ X = 0 /\ PC = 32768

(* ---- opcodes without a semantic action: steps of each of them ---------- *)

\* steps the driver makes in SpecUnimplemented
UnimplementedSteps == 2

\* the instruction kinds step() has no branch for
UnimplementedKinds == {"KIL", "SLO", "ANC", "RLA", "SRE", "ALR", "RRA", "ARR", "SAX",
                       "XAA", "AHX", "TAS", "SHY", "SHX", "LAX", "LAS", "DCP", "AXS",
                       "ISC"}

\* the opcodes of those kinds
UnimplementedOpcodes == {op \in 0..255 : Instr(op).type \in UnimplementedKinds}

\* the two bytes after the opcode
UnimplementedOperands == {<<16, 2>>, <<255, 0>>}

InitUnimplemented ==
    \E op \in UnimplementedOpcodes, operand \in UnimplementedOperands,
       a \in {0, 90}, c \in BOOLEAN :
        Start([Loaded(At(32768, <<op, operand[1], operand[2]>>) @@ CyclePointers, 32768)
                  EXCEPT !.A = a, !.X = 1, !.Y = 255, !.C = c],
              UnimplementedSteps)

SpecUnimplemented == InitUnimplemented /\ [][Step]_vars

\* the last call was a step() that decoded an opcode without a semantic action
SteppedUnimplemented ==
    /\ lastOp = "step" /\ pre.stall = 0 /\ ~pre.err
    /\ OpcodeAt(pre) \in UnimplementedOpcodes

\* C25: step() on an opcode whose kind has no semantic action raises no error,
\* leaves A, X, Y, SP, the flags, RAM, PPU and cartridge unchanged, advances PC
\* by the declared length of the descriptor and adds its base cost to cpu_ticks
C25_Unimplemented ==
    SteppedUnimplemented =>
        /\ ~err
        /\ <<A, X, Y, SP>> = <<pre.A, pre.X, pre.Y, pre.SP>>
        /\ <<C, Z, I, D, B, V, N>> = <<pre.C, pre.Z, pre.I, pre.D, pre.B, pre.V, pre.N>>
        /\ ram = pre.ram /\ ppu = pre.ppu /\ rom = pre.rom
        /\ PC = pre.PC + Instr(OpcodeAt(pre)).length
        /\ cpu_ticks = pre.cpu_ticks + Instr(OpcodeAt(pre)).ticks

\* the second step of LAS absolute,Y (0xBB), whose operand plus Y crosses a
\* page and whose descriptor has a page-cross cost: four ticks each time
C25_Witness ==
    /\ SteppedUnimplemented /\ OpcodeAt(pre) = 187 /\ OperandLow(pre) = 16
    /\ pre.Y = 255 /\ lastOp2 = "step"
    /\ cpu_ticks = pre2.cpu_ticks + 8 /\ PC = 32768 /\ ~err

(* ---- exceptions: a step of every opcode on one- and two-bank cartridges - *)

\* steps the driver makes in SpecRaise
RaiseSteps == 1

\* a two-bank cartridge and a CPU built on it whose RAM has since been filled
\* from the cells below 0x800 and whose PC has reached pc
Loaded2(cells, pc) ==
    [NewCPU(NewROM(2, Image2(Restrict(cells, 32768..65536) @@ ResetTo(32768))))
       EXCEPT !.ram = RamOf(Restrict(cells, 0..(MEM_SIZE - 1))), !.PC = pc]

\* the two bytes after the opcode: RAM, the PPU control port, the OAM data port
RaiseOperands == {<<16, 2>>, <<0, 32>>, <<4, 32>>}

\* the OAM address the program has left in the PPU
RaiseOAMAddresses == {0, 255}

InitRaise ==
    \E banks \in {1, 2}, op \in 0..255, operand \in RaiseOperands,
       oam \in RaiseOAMAddresses :
        Start([(IF banks = 1
                THEN Loaded(At(32768, <<op, operand[1], operand[2]>>) @@ CyclePointers, 32768)
                ELSE Loaded2(At(32768, <<op, operand[1], operand[2]>>) @@ CyclePointers, 32768))
                  EXCEPT !.ppu.spr_address = oam],
              RaiseSteps)

SpecRaise == InitRaise /\ [][Step]_vars

\* C26: with a mapper-0 cartridge of one or two PRG banks, a call to step()
\* completes without raising an exception, whatever the opcode at PC
C26_NoException == lastOp = "step" => ~err

\* LDA absolute from the PPU control port has raised
C26_Reached ==
    /\ lastOp = "step" /\ OpcodeAt(pre) = 173 /\ OperandLow(pre) = 0
    /\ OperandHigh(pre) = 32 /\ err /\ A = None /\ rom.prg_rom_size = 2

(* ---- JMP indirect: pointers in RAM, its mirrors and the cartridge ------ *)

\* steps the driver makes in SpecIndirect
IndirectSteps == 2

\* pointers: inside a RAM page, at the end of one, at the end of the RAM, in a
\* RAM mirror and in cartridge space
IndirectPointers == {16, 255, 767, 2046, 2047, 2064, 36864, 37119}

\* the low and high bytes of the target the pointer holds
IndirectTargets == {<<52, 18>>, <<0, 144>>, <<255, 255>>, <<1, 0>>}

\* the cell the high byte is fetched from: the start of the pointer's page when
\* the pointer is the last byte of a page, the next cell otherwise
HighCell(p) == IF p % 256 = 255 THEN p - 255 ELSE p + 1

\* the cell of CPU.ram or of the cartridge behind bus address a
CellBehind(a) == IF a < 8192 THEN a % 2048 ELSE a

InitIndirect ==
    \E p \in IndirectPointers, target \in IndirectTargets, stray \in {0, 119} :
        Start(Loaded(At(32768, <<108, p % 256, p \div 256>>)
                     @@ (CellBehind(p) :> target[1])
                     @@ (CellBehind(HighCell(p)) :> target[2])
                     @@ (CellBehind(p + 1) :> stray), 32768),
              IndirectSteps)

SpecIndirect == InitIndirect /\ [][Step]_vars

\* the pointer of the JMP indirect at the PC of machine m
PointerAt(m) == OperandLow(m) + 256 * OperandHigh(m)

\* the last call was a step() that decoded JMP indirect (0x6C)
SteppedIndirect == lastOp = "step" /\ pre.stall = 0 /\ OpcodeAt(pre) = 108

\* the step() completed with PC = lo | (hi << 8), lo being the byte the bus
\* reads at p and hi the byte at p + 1, or at p & 0xFF00 when p ends a page
JumpedThrough(p) ==
    /\ ~err
    /\ PC = ReadMemory(pre, p, "ABSOLUTE").v
            + 256 * ReadMemory(pre, HighCell(p), "ABSOLUTE").v

\* C27: JMP indirect with any 16-bit pointer p sets PC to lo | (hi << 8), for
\* pointers anywhere in the address space, p = 0x07FF and pointers into
\* cartridge space included
C27_JMPIndirect == SteppedIndirect => JumpedThrough(PointerAt(pre))

\* the same for the pointers p with p + 1 below 0x0800
C27_PointerInRAM ==
    (SteppedIndirect /\ PointerAt(pre) + 1 < 2048) => JumpedThrough(PointerAt(pre))

\* a pointer at 0x02FF takes its high byte from 0x0200, not from 0x0300
C27_PageEnd ==
    /\ SteppedIndirect /\ PointerAt(pre) = 767 /\ ~err
    /\ ArrGet(pre.ram, 768) = 119 /\ ArrGet(pre.ram, 512) = 18 /\ PC = 18 * 256 + 52

\* a pointer into cartridge space: the step() raises
C27_Reached == SteppedIndirect /\ PointerAt(pre) = 36864 /\ err

(* ---- drive loop: cpu.step(), three ppu.step() per tick, the NMI -------- *)

\* actions of the drive loop the driver lets happen in SpecLoop
LoopCalls == 50

\* the frame ppu.step() walks through: cycles per scanline, scanlines per frame
PPU_CYCLES == 341
PPU_SCANLINES == 262

\* ppu.step(): one PPU cycle further, into the next scanline after the last
\* cycle and into the next frame after the last scanline
PPUStepOp(l) ==
    IF l.cycle + 1 < PPU_CYCLES THEN [l EXCEPT !.cycle = l.cycle + 1]
    ELSE [l EXCEPT !.cycle = 0, !.scanline = (l.scanline + 1) % PPU_SCANLINES]

\* range(new_ticks * 3) with one ppu.step() whatever the instruction cost
PPUStepsFor_PerStep(new_ticks) == 3

\* range(new_ticks * 3): the ppu.step() calls for new_ticks CPU ticks
PPUStepsFor(new_ticks) == new_ticks * 3

\* the NMI test of the loop without the look at ppu.generate_nmi
NMIWanted_Unmasked(l, p) == l.scanline = 241 /\ l.cycle = 2

\* (ppu.scanline == 241) and (ppu.cycle == 2) and ppu.generate_nmi
NMIWanted(l, p) == l.scanline = 241 /\ l.cycle = 2 /\ p.generate_nmi

\* the loop after cpu.step() returned with cpu_ticks at `now`, or raised
LoopAfterStep(l, now, raised) ==
    IF raised THEN [l EXCEPT !.pos = "raised"]
    ELSE [l EXCEPT !.new_ticks = now - l.ticks,
                   !.left = PPUStepsFor(now - l.ticks),
                   !.pos = IF PPUStepsFor(now - l.ticks) > 0 THEN "ppu" ELSE "end"]

\* cpu.step() and new_ticks = cpu.cpu_ticks - ticks
LoopStep ==
    /\ loop.pos = "step" /\ ~err /\ budget > 0
    /\ Becomes(StepOp(Machine))
    /\ Record("step")
    /\ loop' = LoopAfterStep(loop, cpu_ticks', err')
    /\ budget' = budget - 1
    /\ UNCHANGED <<dmaVars, stackVars, busVars, otherVars>>

\* the loop after a ppu.step(): one more step made, one fewer to make, and one
\* more NMI due if the step left the PPU at scanline 241, cycle 2 with NMI
\* generation enabled
LoopAfterPPU(l, enabled) ==
    [l EXCEPT !.steps = l.steps + 1, !.left = l.left - 1, !.pos = "nmi",
              !.due = l.due + (IF l.scanline = 241 /\ l.cycle = 2 /\ enabled
                               THEN 1 ELSE 0)]

\* one pass of the for loop, up to its tests: ppu.step()
LoopPPU ==
    /\ loop.pos = "ppu" /\ ~err /\ budget > 0
    /\ loop' = LoopAfterPPU(PPUStepOp(loop), ppu.generate_nmi)
    /\ Record("ppu")
    /\ budget' = budget - 1
    /\ UNCHANGED <<machineVars, dmaVars, stackVars, busVars, otherVars>>

\* the rest of the pass: the frame is drawn at scanline 240, cycle 257, and
\* cpu.trigger_NMI() is called if the NMI test holds
LoopNMI ==
    /\ loop.pos = "nmi" /\ ~err /\ budget > 0
    /\ IF NMIWanted(loop, ppu)
       THEN /\ Becomes(TriggerNMIOp(Machine))
            /\ Record("nmi")
            /\ loop' = [loop EXCEPT !.calls = loop.calls + 1,
                                    !.pos = IF loop.left > 0 THEN "ppu" ELSE "end"]
       ELSE /\ UNCHANGED machineVars
            /\ Record("pass")
            /\ loop' = [loop EXCEPT !.pos = IF loop.left > 0 THEN "ppu" ELSE "end"]
    /\ budget' = budget - 1
    /\ UNCHANGED <<dmaVars, stackVars, busVars, otherVars>>

\* ticks += new_ticks, and the keyboard events set or clear joypad buttons
\* (here the A button)
LoopEnd ==
    /\ loop.pos = "end" /\ ~err /\ budget > 0
    /\ \E a \in BOOLEAN :
          Becomes([Machine EXCEPT !.joypad1.a = a])
    /\ loop' = [loop EXCEPT !.ticks = loop.ticks + loop.new_ticks, !.pos = "step"]
    /\ Record("events")
    /\ budget' = budget - 1
    /\ UNCHANGED <<dmaVars, stackVars, busVars, otherVars>>

\* the loop at the top of an iteration, after `ticks` CPU ticks and three
\* ppu.step() for each of them from scanline 0, cycle 0
LoopAt(ticks) ==
    [pos |-> "step", ticks |-> ticks, new_ticks |-> 0, left |-> 0,
     scanline |-> ((3 * ticks) % (PPU_CYCLES * PPU_SCANLINES)) \div PPU_CYCLES,
     cycle |-> ((3 * ticks) % (PPU_CYCLES * PPU_SCANLINES)) % PPU_CYCLES,
     steps |-> 3 * ticks, due |-> 0, calls |-> 0]

\* CPU ticks the loop has run for: none, and a few before scanline 241, cycle 2
\* of the first and of the third frame
LoopTicks == {0, 27393, 27394, 86955}

\* programs at 0x8000: instructions of 5 (page crossed), 2 and 7 ticks; a
\* taken branch and a call; an OAM DMA and its stall
LoopPrograms == {<<189, 255, 0, 234, 0>>,
                 <<208, 0, 32, 0, 144, 234, 234>>,
                 <<141, 20, 64, 234>>}

InitLoop ==
    \E ticks \in LoopTicks, program \in LoopPrograms, enabled \in BOOLEAN :
        /\ Holds([Loaded(At(32768, program) @@ At(36864, <<234, 96>>)
                         @@ At(NMI_VECTOR, <<0, 144>>), 32768)
                    EXCEPT !.A = 2, !.X = 1, !.cpu_ticks = ticks,
                           !.ppu.generate_nmi = enabled])
        /\ FreshHistory(Machine)
        /\ budget = LoopCalls /\ plan = [n |-> 0, sp |-> SP]
        /\ ports = NoPorts
        /\ loop = LoopAt(ticks) /\ OthersIdle

SpecLoop == InitLoop /\ [][LoopStep \/ LoopPPU \/ LoopNMI \/ LoopEnd]_vars

\* C28: at the end of every iteration of the drive loop the number of PPU
\* steps performed since the start is 3 times cpu.cpu_ticks
C28_ThreePerTick ==
    (loop.pos = "step" /\ lastOp = "events") => loop.steps = 3 * cpu_ticks

\* an iteration ends one tick into an OAM-DMA stall, three PPU steps on from
\* the iteration before
C28_Witness ==
    /\ loop.pos = "step" /\ lastOp = "events"
    /\ stall = DMA_STALL - 1 /\ loop.new_ticks = 1
    /\ loop.steps = 3 * cpu_ticks /\ loop.steps > 3

\* an iteration ends after a 5-tick instruction that crossed a page
C28_PageCross ==
    /\ loop.pos = "step" /\ lastOp = "events" /\ loop.new_ticks = 5
    /\ page_crossed /\ loop.steps = 3 * cpu_ticks

\* the PPU stands at scanline 241, cycle 2 with NMI generation enabled
AtNMICoordinate == loop.scanline = 241 /\ loop.cycle = 2 /\ ppu.generate_nmi

\* C29: the drive loop calls cpu.trigger_NMI() once for each PPU step that
\* leaves the PPU at scanline 241, cycle 2 while NMI generation is enabled,
\* at no other coordinate and never while it is disabled, and before the next
\* cpu.step()
C29_NMIOnce ==
    /\ (loop.pos = "nmi" /\ AtNMICoordinate) => loop.calls + 1 = loop.due
    /\ (loop.pos = "nmi" /\ ~AtNMICoordinate) => loop.calls = loop.due
    /\ (loop.pos \in {"ppu", "end", "raised"}) => loop.calls = loop.due
    /\ (loop.pos = "step") => loop.calls = loop.due
    /\ (lastOp = "nmi") =>
          loop.scanline = 241 /\ loop.cycle = 2 /\ pre.ppu.generate_nmi

\* the NMI is delivered in the middle of the PPU steps of an instruction, and
\* the handler at 0x9000 is what the next cpu.step() will run
C29_Witness ==
    /\ lastOp = "nmi" /\ loop.calls = 1 /\ loop.due = 1 /\ loop.left > 0
    /\ loop.scanline = 241 /\ loop.cycle = 2 /\ PC = 36864 /\ I

\* the PPU passes scanline 241, cycle 2 with NMI generation disabled
C29_Disabled ==
    /\ lastOp = "pass" /\ loop.scanline = 241 /\ loop.cycle = 2
    /\ ~ppu.generate_nmi /\ loop.calls = 0 /\ loop.due = 0

(* ---------------- C30: the MacPaint run-length encoder ------------------ *)

MaxSegments == 2
MAX_WIDTH == 576

\* source[i] of a Python array, indices from 0
Item(source, i) == source[i + 1]

\* source[a:b] of a Python array: the slice stops at the end of the array
Slice(source, a, b) ==
    SubSeq(source, a + 1, IF b < Len(source) THEN b ELSE Len(source))

\* the while loop of take_same: count goes up while the byte at start + count
\* equals the one after it
RECURSIVE SameCount(_, _, _)
SameCount(source, start, count) ==
    IF start + count + 1 < Len(source)
       /\ Item(source, start + count) = Item(source, start + count + 1)
    THEN SameCount(source, start, count + 1)
    ELSE count

\* how many of the same bytes are in a row from start: 0 when there are not two
take_same(source, start) ==
    LET count == SameCount(source, start, 0)
    IN  IF count > 0 THEN count + 1 ELSE 0

\* the inner while loop: not_same goes up while no run starts at
\* index + not_same and that position is inside the line
RECURSIVE NotSame(_, _, _)
NotSame(data, index, not_same) ==
    IF take_same(data, index + not_same) = 0 /\ index + not_same < Len(data)
    THEN NotSame(data, index, not_same + 1)
    ELSE not_same

\* what one pass of `while index < len(data)` appends for the literal it found
LiteralPacket(data, index, not_same) ==
    IF not_same > 0
    THEN <<not_same - 1>> \o Slice(data, index, index + not_same)
    ELSE <<>>

\* what the same pass appends for the run it found, index being past the literal
RunPacket(data, index, same) ==
    IF same > 0 THEN <<257 - same, Item(data, index)>> ELSE <<>>

\* the bytes appended for one line from index on
RECURSIVE EncodeLine(_, _)
EncodeLine(data, index) ==
    IF index < Len(data)
    THEN LET not_same == NotSame(data, index, 0)
             same == take_same(data, index + not_same)
         IN  LiteralPacket(data, index, not_same)
                 \o RunPacket(data, index + not_same, same)
                 \o EncodeLine(data, index + not_same + same)
    ELSE <<>>

\* the for loop over range(0, len(original_data), MAX_WIDTH // 8)
RECURSIVE EncodeFrom(_, _)
EncodeFrom(source, line_start) ==
    IF line_start < Len(source)
    THEN EncodeLine(Slice(source, line_start, line_start + (MAX_WIDTH \div 8)), 0)
             \o EncodeFrom(source, line_start + (MAX_WIDTH \div 8))
    ELSE <<>>

\* the encoder without line boundaries
run_length_encode_OneLine(source) == EncodeLine(source, 0)

run_length_encode(source) == EncodeFrom(source, 0)

\* the inputs: up to MaxSegments stretches, each a run of one byte or an
\* alternation of two, of a length around one line
SegmentKinds == {"white", "black", "grey"}
SegmentLengths == {1, 2, 71, 72, 73}

Segment(kind, n) ==
    [j \in 1..n |-> CASE kind = "white" -> 0
                      [] kind = "black" -> 255
                      [] kind = "grey" -> IF j % 2 = 1 THEN 85 ELSE 170]

RECURSIVE Images(_)
Images(k) ==
    IF k = 0 THEN {<<>>}
    ELSE LET shorter == Images(k - 1)
         IN  shorter \cup {p \o Segment(s[1], s[2]) :
                             p \in shorter, s \in SegmentKinds \X SegmentLengths}

\* the emulator while another program runs: constructed and left alone
EmulatorIdle ==
    /\ Holds(Loaded(<<>>, 32768)) /\ FreshHistory(Loaded(<<>>, 32768))
    /\ plan = [n |-> 0, sp |-> STACK_POINTER_RESET]
    /\ ports = NoPorts /\ loop = NoLoop

InitEncode ==
    /\ EmulatorIdle /\ budget = 0 /\ InterpreterIdle /\ VMIdle
    /\ original_data \in Images(MaxSegments)
    /\ rle_data = <<>>

\* packed = run_length_encode(unpacked)
RunLengthEncode ==
    /\ lastOp = "init"
    /\ rle_data' = run_length_encode(original_data)
    /\ lastOp' = "run_length_encode"
    /\ UNCHANGED <<machineVars, pre, lastOp2, pre2, budget, dmaVars, stackVars, busVars,
                   loop, original_data, interpreter, gosubs, vm, run>>

SpecEncode == InitEncode /\ [][RunLengthEncode]_vars

\* PackBits read back: the packets of out from position i on, each with the
\* number of bytes it stands for and those bytes; a header of 128, or a packet
\* cut short by the end of out, reads as a packet of no bytes and ends the list
RECURSIVE Packets(_, _)
Packets(out, i) ==
    IF i > Len(out) THEN <<>>
    ELSE IF out[i] < 128 /\ i + out[i] + 1 <= Len(out)
    THEN <<[literal |-> TRUE, n |-> out[i] + 1,
            bytes |-> SubSeq(out, i + 1, i + out[i] + 1)]>>
             \o Packets(out, i + out[i] + 2)
    ELSE IF out[i] > 128 /\ i + 1 <= Len(out)
    THEN <<[literal |-> FALSE, n |-> 257 - out[i],
            bytes |-> [j \in 1..(257 - out[i]) |-> out[i + 1]]]>>
             \o Packets(out, i + 2)
    ELSE <<[literal |-> TRUE, n |-> 0, bytes |-> <<>>]>>

\* the bytes the first k of the packets ps stand for, one after the other
RECURSIVE Expansion(_, _)
Expansion(ps, k) ==
    IF k = 0 THEN <<>> ELSE Expansion(ps, k - 1) \o ps[k].bytes

\* packet k of ps stands for bytes of one line only
WithinLine(ps, k) ==
    LET first == Len(Expansion(ps, k - 1))
    IN  first \div (MAX_WIDTH \div 8) = (first + ps[k].n - 1) \div (MAX_WIDTH \div 8)

\* C30: the output of run_length_encode is a sequence of PackBits packets, a
\* header n - 1 followed by n >= 1 literal bytes or a header 257 - n followed by
\* one byte standing for n >= 2 equal bytes; expanded one after the other they
\* give back the input, and every packet stands for bytes of one 72-byte line
\* only, so the packets of a line expand exactly to that line.
C30_PackBits ==
    lastOp = "run_length_encode" =>
        LET ps == Packets(rle_data, 1)
        IN  /\ \A k \in 1..Len(ps) : IF ps[k].literal THEN ps[k].n >= 1 ELSE ps[k].n >= 2
            /\ Expansion(ps, Len(ps)) = original_data
            /\ \A k \in 1..Len(ps) : WithinLine(ps, k)

\* a run of equal bytes lies across the end of the first line and is encoded
C30_Witness ==
    /\ lastOp = "run_length_encode"
    /\ Len(original_data) > MAX_WIDTH \div 8 + 1
    /\ Item(original_data, MAX_WIDTH \div 8 - 2) = Item(original_data, MAX_WIDTH \div 8 - 1)
    /\ Item(original_data, MAX_WIDTH \div 8 - 1) = Item(original_data, MAX_WIDTH \div 8)
    /\ Item(original_data, MAX_WIDTH \div 8) = Item(original_data, MAX_WIDTH \div 8 + 1)
    /\ Len(rle_data) > 0

\* a stretch of unequal bytes lies across the end of the first line and is encoded
C30_LiteralAcross ==
    /\ lastOp = "run_length_encode"
    /\ Len(original_data) > MAX_WIDTH \div 8 + 1
    /\ Item(original_data, MAX_WIDTH \div 8 - 2) # Item(original_data, MAX_WIDTH \div 8 - 1)
    /\ Item(original_data, MAX_WIDTH \div 8 - 1) # Item(original_data, MAX_WIDTH \div 8)
    /\ Item(original_data, MAX_WIDTH \div 8) # Item(original_data, MAX_WIDTH \div 8 + 1)
    /\ Len(rle_data) > 0

(* ------------- the OAM address and data ports (0x2003, 0x2004) ---------- *)

\* bus accesses the driver makes in SpecOAM
OAMCalls == 3

\* the OAM address port is written, the OAM data port read and written
OAMReads == {8196}
OAMWrites == {8195, 8196}

\* bytes written: the last OAM address, the first, and one more
OAMBytes == {0, 7, 255}

InitOAM ==
    StartBus(Loaded(RAMCells, 32768), OAMCalls, OAMReads, OAMWrites, OAMBytes)

SpecOAM == InitOAM /\ [][BusRead \/ BusWrite]_vars

\* C33: after any sequence of PPU register writes the OAM address is in 0..255
\* and no OAM data write has failed: a write to 0x2004 stores the byte at the
\* OAM address and advances the address by 1 modulo 256
C33_OAMAddress ==
    /\ ppu.spr_address \in 0..255
    /\ ~err
    /\ (lastOp = "write" /\ access.address = 8196) =>
           /\ ArrGet(ppu.spr, pre.ppu.spr_address) = access.value
           /\ ppu.spr_address = (pre.ppu.spr_address + 1) % 256

\* below the last cell an OAM data write stores the byte and advances the
\* address by one
C33_BelowLastCell ==
    (lastOp = "write" /\ access.address = 8196 /\ pre.ppu.spr_address < 255) =>
        /\ ~err
        /\ ArrGet(ppu.spr, pre.ppu.spr_address) = access.value
        /\ ppu.spr_address = pre.ppu.spr_address + 1

\* an OAM data write to the last cell has left the address at 256
C33_Reached ==
    /\ lastOp = "write" /\ access.address = 8196
    /\ pre.ppu.spr_address = 255 /\ ppu.spr_address = 256 /\ ~err

\* the OAM data write after that has failed
C33_Raised ==
    /\ lastOp = "write" /\ access.address = 8196
    /\ pre.ppu.spr_address = 256 /\ err

(* --------------- the range of the PPU address register ------------------ *)

\* bus accesses the driver makes in SpecAddrRange
AddrRangeCalls == 3

\* the control, address and data ports are written, the data port is read
AddrRangeReads == {8199}
AddrRangeWrites == {8192, 8198, 8199}

\* bytes written: bit 2 alone, and every bit
AddrRangeBytes == {4, 255}

InitAddrRange ==
    StartBus(Loaded(RAMCells, 32768), AddrRangeCalls, AddrRangeReads, AddrRangeWrites,
             AddrRangeBytes)

SpecAddrRange == InitAddrRange /\ [][BusRead \/ BusWrite]_vars

\* C34: after any sequence of address-port writes and data-port reads and
\* writes, with increment 1 or 32, the PPU address register is in 0..0xFFFF
C34_AddrRange == ppu.addr \in 0..65535

\* an address-port write leaves the register in 0..0xFFFF
C34_AfterAddressWrite ==
    (lastOp = "write" /\ access.address = 8198 /\ pre.ppu.addr \in 0..65535) =>
        ppu.addr \in 0..65535

\* a data-port access at 0xFFFF has taken the register past 16 bits
C34_Reached ==
    /\ lastOp \in {"read", "write"} /\ access.address = 8199
    /\ pre.ppu.addr = 65535 /\ ppu.addr > 65535

(* ------------- writes into the PRG-ROM range 0x8000..0xFFFF ------------- *)

\* the byte a read of cartridge address a returns from machine m
CartridgeByte(m, a) == ReadMemory(m, a, "ABSOLUTE").v

\* cartridge addresses the comparison reads: both ends of the PRG-RAM window
\* and of the PRG-ROM range, and the cells the driver writes
CartridgeProbes == {24576, 24577, 32767, 32768, 32769, 65535}

\* C35: a CPU write to an address in 0x8000..0xFFFF changes no byte that a
\* read of a cartridge address in 0x6000..0xFFFF returns: PRG-ROM and PRG-RAM
\* are as before
C35_ROMWrite ==
    (lastOp = "write" /\ access.address >= 32768) =>
        /\ rom.prg_rom = pre.rom.prg_rom
        /\ rom.prg_ram = pre.rom.prg_ram
        /\ \A a \in CartridgeProbes : CartridgeByte(Machine, a) = CartridgeByte(pre, a)

\* such a write leaves PRG-ROM and every byte read from 0x8000..0xFFFF as before
C35_PRGROMKept ==
    (lastOp = "write" /\ access.address >= 32768) =>
        /\ rom.prg_rom = pre.rom.prg_rom
        /\ \A a \in CartridgeProbes \cap (32768..65535) :
              CartridgeByte(Machine, a) = CartridgeByte(pre, a)

\* a write to 0xFFFF has changed the byte read at 0x7FFF
C35_Reached ==
    /\ lastOp = "write" /\ access.address = 65535 /\ access.value = 18
    /\ CartridgeByte(pre, 32767) = 0 /\ CartridgeByte(Machine, 32767) = 18

(* ------------- the status byte: PHP and PLP with every flag set --------- *)

\* steps the driver makes in SpecFlags
FlagSteps == 2

\* SP before the first instruction: both ends of the stack page
FlagStacks == {0, 1, 253, 255}

\* PHP then PLP, and PLP (pulling what earlier pushes left) then PHP
FlagPrograms == {<<8, 40>>, <<40, 8>>}

InitFlags ==
    \E program \in FlagPrograms, sp \in FlagStacks,
       f \in [{"C", "Z", "I", "D", "V", "N"} -> BOOLEAN] :
        Start([Loaded(At(32768, program) @@ StackLeftovers, 32768)
                 EXCEPT !.SP = sp, !.C = f.C, !.Z = f.Z, !.I = f.I, !.D = f.D,
                        !.V = f.V, !.N = f.N], FlagSteps)

SpecFlags == InitFlags /\ [][Step]_vars

\* bits 0, 1, 2, 3, 6, 7 of byte s are the flags C, Z, I, D, V, N of machine m,
\* and the reserved bit 5 is set
FlagBits(s, m) ==
    /\ Bit(s, 0) = IntOf(m.C) /\ Bit(s, 1) = IntOf(m.Z) /\ Bit(s, 2) = IntOf(m.I)
    /\ Bit(s, 3) = IntOf(m.D) /\ Bit(s, 6) = IntOf(m.V) /\ Bit(s, 7) = IntOf(m.N)
    /\ Bit(s, 5) = 1

\* C36: the status byte has the reserved bit 5 set and bits 0, 1, 2, 3, 6, 7
\* equal to C, Z, I, D, V, N; PHP pushes it with bit 4 also set; PHP followed
\* immediately by PLP leaves C, Z, I, D, V, N and SP unchanged
C36_StatusByte ==
    /\ Status(Machine) \in Byte /\ FlagBits(Status(Machine), Machine)
    /\ ExecutedOpcode(8) =>
          /\ FlagBits(ArrGet(ram, STACK_START + pre.SP), pre)
          /\ Bit(ArrGet(ram, STACK_START + pre.SP), 4) = 1
          /\ SP = (pre.SP - 1) % 256
    /\ (ExecutedOpcode(40) /\ lastOp2 = "step" /\ OpcodeAt(pre2) = 8) =>
          /\ C = pre2.C /\ Z = pre2.Z /\ I = pre2.I /\ D = pre2.D
          /\ V = pre2.V /\ N = pre2.N
          /\ SP = pre2.SP

\* PHP then PLP has run with Overflow set and Negative clear, from SP = 0
C36_Witness ==
    /\ ExecutedOpcode(40) /\ lastOp2 = "step" /\ OpcodeAt(pre2) = 8
    /\ pre2.V /\ ~pre2.N /\ pre2.C /\ ~pre2.Z /\ pre2.SP = 0
    /\ ArrGet(ram, STACK_START) = 1 + 16 + 32 + 64 + 4 * IntOf(pre2.I) + 8 * IntOf(pre2.D)

(* ------------- the Break flag between instructions ---------------------- *)

\* calls the driver makes in SpecBreak
BreakCalls == 3

\* SP before the first call: PLP and RTI then pull status bytes with bit 4
\* clear (from 0x0101) and set (from 0x0100 and 0x01FE)
BreakStacks == {0, 253, 255}

\* every opcode at the reset address, PLP after it, and an interrupt handler
\* that is RTI alone
InitBreak ==
    \E op \in Byte, sp \in BreakStacks :
        Start([Loaded(At(32768, <<op, 40, 8>>)
                        @@ At(NMI_VECTOR, <<0, 144>>) @@ At(IRQ_BRK_VECTOR, <<0, 144>>)
                        @@ At(36864, <<64>>) @@ StackLeftovers, 32768)
                 EXCEPT !.SP = sp], BreakCalls)

SpecBreak == InitBreak /\ [][Step \/ TriggerNMI]_vars

\* the status byte the last call pushed, when it was BRK or an interrupt
\* entry (after the two bytes of PC) or PHP
PushedStatus ==
    IF lastOp = "nmi" \/ OpcodeAt(pre) = 0
    THEN ArrGet(ram, STACK_START + ((pre.SP - 2) % 256))
    ELSE ArrGet(ram, STACK_START + pre.SP)

\* C37: after construction and after every completed step() or trigger_NMI()
\* call the Break flag is clear, whatever status byte PLP or RTI pulled; it
\* is set only in the status byte that BRK, PHP and the interrupt entry push
C37_BreakClear ==
    /\ ~err => ~B
    /\ (~err /\ (lastOp = "nmi" \/ ExecutedOpcode(0) \/ ExecutedOpcode(8))) =>
          Bit(PushedStatus, 4) = 1

\* PLP has pulled a status byte with bit 4 set
C37_Witness ==
    /\ ExecutedOpcode(40)
    /\ Bit(ArrGet(ram, STACK_START + SP), 4) = 1
    /\ ~B

\* RTI has pulled the status byte that BRK pushed
C37_AfterBreak ==
    /\ ExecutedOpcode(64) /\ lastOp2 = "step" /\ OpcodeAt(pre2) = 0
    /\ Bit(ArrGet(ram, STACK_START + ((SP - 2) % 256)), 4) = 1
    /\ ~B

(* ------------- SBC #m against ADC #(m XOR 0xFF) ------------------------- *)

\* the machine SpecSBC starts from, with ADC #operand in place of SBC
ADCTwin(a, operand, c) ==
    [NewCPU(NewROM(1, Image1(At(32768, <<105, operand>>) @@ ResetTo(32768))))
       EXCEPT !.A = a, !.C = c]

\* machines m and n agree on A, Carry, Overflow, Zero and Negative
SameArithmetic(m, n) ==
    /\ m.A = n.A /\ m.C = n.C /\ m.V = n.V /\ m.Z = n.Z /\ m.N = n.N
    /\ m.err = n.err

\* C38: for every A, m in 0..255 and carry-in c, SBC #m leaves the same A,
\* Carry, Overflow, Zero and Negative as ADC #(m XOR 0xFF) run from the same
\* registers and flags
C38_SBCAsADC ==
    ExecutedOpcode(233) =>
        SameArithmetic(Machine,
                       StepOp(ADCTwin(pre.A, Xor8(OperandLow(pre), 255), pre.C)))

\* SBC #0x80 ran with A = 0x00 and carry set: 0 - (-128) overflows, as does
\* ADC #0x7F with the carry
C38_Witness ==
    /\ ExecutedOpcode(233) /\ pre.A = 0 /\ OperandLow(pre) = 128 /\ pre.C
    /\ A = 128 /\ V /\ ~C /\ N
    /\ StepOp(ADCTwin(0, 127, TRUE)).A = 128

(* ------------- the PC advance of every opcode byte ---------------------- *)

\* steps the driver makes in SpecAdvance
AdvanceSteps == 2

\* the two bytes after the opcode: an address in RAM, and a zero-page address
AdvanceOperands == {<<16, 2>>, <<255, 0>>}

\* every opcode byte at the reset address, with the flags all set or all clear
\* so that each branch is taken and not taken
InitAdvance ==
    \E op \in Byte, operand \in AdvanceOperands, f \in BOOLEAN :
        Start([Loaded(At(32768, <<op, operand[1], operand[2]>>) @@ CyclePointers, 32768)
                 EXCEPT !.A = 90, !.X = 1, !.Y = 255, !.C = f, !.Z = f, !.V = f, !.N = f],
              AdvanceSteps)

SpecAdvance == InitAdvance /\ [][Step]_vars

\* the last call was a step() that executed an instruction other than a jump,
\* a taken branch, a call, a return or BRK
SteppedInLine ==
    /\ Executed
    /\ Instr(OpcodeAt(pre)).type \notin {"JMP", "JSR", "RTS", "RTI", "BRK"}
    /\ ~(Instr(OpcodeAt(pre)).type \in BranchTypes
           /\ BranchTaken(pre, Instr(OpcodeAt(pre)).type))

\* C39: every non-stalled step() that executes no jump, taken branch, call,
\* return or BRK advances PC by 1, 2 or 3, whatever the opcode byte, so PC is
\* never the same after such a step as before it
C39_PCAdvance ==
    SteppedInLine => (PC - pre.PC \in 1..3 /\ PC # pre.PC)

\* such a step adds the length its descriptor declares, which is 0, 1, 2 or 3
C39_DeclaredLength ==
    SteppedInLine =>
        /\ PC = pre.PC + Instr(OpcodeAt(pre)).length
        /\ Instr(OpcodeAt(pre)).length \in 0..3

\* two successive steps have executed SBC immediate 0xEB at the same PC
C39_Reached ==
    /\ SteppedInLine /\ OpcodeAt(pre) = 235
    /\ lastOp2 = "step" /\ pre2.PC = 32768 /\ pre.PC = 32768 /\ PC = 32768
    /\ pre.A # pre2.A

(* ------------- ASL, LSR, ROL, ROR on every operand ---------------------- *)

\* steps the driver makes in SpecShift
ShiftSteps == 2

\* ASL, LSR, ROL, ROR in accumulator, zero-page, zero-page,X, absolute and
\* absolute,X mode
ShiftOpcodes == {10, 74, 42, 106, 6, 70, 38, 102, 22, 86, 54, 118,
                 14, 78, 46, 110, 30, 94, 62, 126}

\* each shift with the operand bytes 0x10, 0x02, and ROL A followed by ROR A
ShiftPrograms == {<<op, 16, 2>> : op \in ShiftOpcodes} \cup {<<42, 106>>}

\* X at the start: zero-page,X wraps with 0xFF
ShiftIndexes == {1, 255}

\* the address the operand bytes 0x10, 0x02 name in the mode of opcode op
ShiftTarget(op, x) ==
    CASE Instr(op).mode = "ZEROPAGE" -> 16
      [] Instr(op).mode = "ZEROPAGE_X" -> (16 + x) % 256
      [] Instr(op).mode = "ABSOLUTE" -> 528
      [] Instr(op).mode = "ABSOLUTE_X" -> 528 + x
      [] OTHER -> 0

\* the operand s is in A and, for a memory shift, at the address the
\* instruction names
InitShift ==
    \E program \in ShiftPrograms, s \in Byte, c \in BOOLEAN, x \in ShiftIndexes :
        Start([Loaded(At(32768, program) @@ (ShiftTarget(program[1], x) :> s), 32768)
                 EXCEPT !.A = s, !.X = x, !.C = c], ShiftSteps)

SpecShift == InitShift /\ [][Step]_vars

\* the last step executed a shift in accumulator mode
ShiftedA == Executed /\ OpcodeAt(pre) \in ShiftOpcodes
              /\ Instr(OpcodeAt(pre)).mode = "ACCUMULATOR"

\* the last step executed a shift of a memory operand
ShiftedM == Executed /\ OpcodeAt(pre) \in ShiftOpcodes
              /\ Instr(OpcodeAt(pre)).mode # "ACCUMULATOR"

\* carry and result of a shift of kind type on s with carry-in c, as documented
Shifted(type, s, c, carry, result) ==
    CASE type = "ASL" -> carry = Bit(s, 7) /\ result = (2 * s) % 256
      [] type = "LSR" -> carry = Bit(s, 0) /\ result = s \div 2
      [] type = "ROL" -> carry = Bit(s, 7) /\ result = ((2 * s) % 256) + c
      [] type = "ROR" -> carry = Bit(s, 0) /\ result = (s \div 2) + 128 * c

\* C40: for ASL, LSR, ROL and ROR on an 8-bit operand s with carry-in c, Carry
\* becomes the bit shifted out and the result is (2s) mod 256, s div 2,
\* ((2s) mod 256) + c, (s div 2) + 128c; it is written to A in accumulator mode
\* and otherwise to the address the operand was read from; ROL followed by ROR
\* on the accumulator restores A and Carry
C40_Shifts ==
    /\ ShiftedA =>
          Shifted(Instr(OpcodeAt(pre)).type, pre.A, IntOf(pre.C), IntOf(C), A)
    /\ ShiftedM =>
          /\ Shifted(Instr(OpcodeAt(pre)).type,
                     ArrGet(pre.ram, ShiftTarget(OpcodeAt(pre), pre.X)), IntOf(pre.C),
                     IntOf(C), ArrGet(ram, ShiftTarget(OpcodeAt(pre), pre.X)))
          /\ A = pre.A
          /\ \A a \in (DOMAIN ram \cup DOMAIN pre.ram) \ {ShiftTarget(OpcodeAt(pre), pre.X)} :
                ArrGet(ram, a) = ArrGet(pre.ram, a)
    /\ (ExecutedOpcode(106) /\ lastOp2 = "step" /\ OpcodeAt(pre2) = 42) =>
          A = pre2.A /\ C = pre2.C

\* ROR of 0x01 at 0x030F (absolute,X) with the carry set has left 0x80 there
C40_Witness ==
    /\ ShiftedM /\ OpcodeAt(pre) = 126 /\ pre.X = 255 /\ pre.C
    /\ ArrGet(pre.ram, 783) = 1 /\ ArrGet(ram, 783) = 128 /\ C

\* ROL A then ROR A has run from A = 0x81 with the carry clear
C40_RoundTrip ==
    /\ ExecutedOpcode(106) /\ lastOp2 = "step" /\ OpcodeAt(pre2) = 42
    /\ pre2.A = 129 /\ ~pre2.C /\ pre.A = 2 /\ pre.C /\ A = 129 /\ ~C

(* ===================== NanoBASIC: the interpreter ======================= *)
(* Statements and expressions are records with the fields of their node     *)
(* class and a field kind naming the class; statement_index counts from 0   *)
(* as in Python, so the current statement is statements[statement_index+1]. *)

\* calls of interpret() the run loop makes in SpecBasic
InterpretCalls == 6

\* Python's // on integers
FloorDiv(a, b) == IF b > 0 THEN a \div b ELSE (0 - a) \div (0 - b)

\* what an evaluation gives back: a value, or the exception it raised
Value(v) == [raised |-> "none", v |-> v]
Raises(exception) == [raised |-> exception, v |-> 0]

\* the arithmetic of a BinaryOperation on two evaluated operands
Arithmetic(operator, l, r) ==
    IF l.raised # "none" THEN l
    ELSE IF r.raised # "none" THEN r
    ELSE CASE operator = "PLUS" -> Value(l.v + r.v)
           [] operator = "MINUS" -> Value(l.v - r.v)
           [] operator = "MULTIPLY" -> Value(l.v * r.v)
           [] operator = "DIVIDE" ->
                  IF r.v = 0 THEN Raises("ZeroDivisionError") ELSE Value(FloorDiv(l.v, r.v))
           [] OTHER -> Raises("InterpreterError")

\* Interpreter.evaluate_numeric
RECURSIVE evaluate_numeric(_, _)
evaluate_numeric(variable_table, e) ==
    CASE e.kind = "NumberLiteral" -> Value(e.number)
      [] e.kind = "VarRetrieve" ->
             IF e.name \in DOMAIN variable_table THEN Value(variable_table[e.name])
             ELSE Raises("InterpreterError")
      [] e.kind = "UnaryOperation" ->
             IF e.operator = "MINUS"
             THEN Arithmetic("MINUS", Value(0), evaluate_numeric(variable_table, e.value))
             ELSE Raises("InterpreterError")
      [] e.kind = "BinaryOperation" ->
             Arithmetic(e.operator, evaluate_numeric(variable_table, e.left),
                        evaluate_numeric(variable_table, e.right))
      [] OTHER -> Raises("InterpreterError")

\* the comparison of a BooleanExpression on two evaluated operands: v is the
\* truth value
Comparison(operator, l, r) ==
    IF l.raised # "none" THEN [raised |-> l.raised, v |-> FALSE]
    ELSE IF r.raised # "none" THEN [raised |-> r.raised, v |-> FALSE]
    ELSE CASE operator = "LESS" -> Value(l.v < r.v)
           [] operator = "LESS_EQUAL" -> Value(l.v <= r.v)
           [] operator = "GREATER" -> Value(l.v > r.v)
           [] operator = "GREATER_EQUAL" -> Value(l.v >= r.v)
           [] operator = "EQUAL" -> Value(l.v = r.v)
           [] operator = "NOT_EQUAL" -> Value(l.v # r.v)
           [] OTHER -> [raised |-> "InterpreterError", v |-> FALSE]

\* Interpreter.evaluate_boolean
evaluate_boolean(variable_table, b) ==
    Comparison(b.operator, evaluate_numeric(variable_table, b.left),
               evaluate_numeric(variable_table, b.right))

\* the while loop of find_line_index: the index of line_id between low and
\* high, None if it is not found
RECURSIVE BinarySearch(_, _, _, _)
BinarySearch(statements, line_id, low, high) ==
    IF low <= high
    THEN LET mid == (low + high) \div 2
         IN  IF statements[mid + 1].line_id < line_id
             THEN BinarySearch(statements, line_id, mid + 1, high)
             ELSE IF statements[mid + 1].line_id > line_id
             THEN BinarySearch(statements, line_id, low, mid - 1)
             ELSE mid
    ELSE None

\* Interpreter.find_line_index
find_line_index(statements, line_id) ==
    BinarySearch(statements, line_id, 0, Len(statements) - 1)

\* Interpreter.__init__
NewInterpreter(statements) ==
    [statements |-> statements, variable_table |-> <<>>, statement_index |-> 0,
     subroutine_stack |-> <<>>, raised |-> "none"]

\* raise: the exception leaves interpret() and run()
Raise(i, exception) == [i EXCEPT !.raised = exception]

\* the GOTO branch: g is what evaluate_numeric gave for the line id
InterpretGoTo(i, g) ==
    IF g.raised # "none" THEN Raise(i, g.raised)
    ELSE IF find_line_index(i.statements, g.v) # None
    THEN [i EXCEPT !.statement_index = find_line_index(i.statements, g.v)]
    ELSE Raise(i, "InterpreterError")

\* the GOSUB branch with the return address being the GOSUB's own index
InterpretGoSub_ReturnToSelf(i, g) ==
    IF g.raised # "none" THEN Raise(i, g.raised)
    ELSE IF find_line_index(i.statements, g.v) # None
    THEN [i EXCEPT !.subroutine_stack = Append(i.subroutine_stack, i.statement_index),
                   !.statement_index = find_line_index(i.statements, g.v)]
    ELSE Raise(i, "InterpreterError")

\* the GOSUB branch: g is what evaluate_numeric gave for the line id
InterpretGoSub(i, g) ==
    IF g.raised # "none" THEN Raise(i, g.raised)
    ELSE IF find_line_index(i.statements, g.v) # None
    THEN [i EXCEPT !.subroutine_stack = Append(i.subroutine_stack, i.statement_index + 1),
                   !.statement_index = find_line_index(i.statements, g.v)]
    ELSE Raise(i, "InterpreterError")

\* the RETURN branch popping the oldest return address
InterpretReturn_Oldest(i) ==
    IF i.subroutine_stack = <<>> THEN Raise(i, "InterpreterError")
    ELSE [i EXCEPT !.statement_index = Head(i.subroutine_stack),
                   !.subroutine_stack = Tail(i.subroutine_stack)]

\* the RETURN branch
InterpretReturn(i) ==
    IF i.subroutine_stack = <<>> THEN Raise(i, "InterpreterError")
    ELSE [i EXCEPT !.statement_index = i.subroutine_stack[Len(i.subroutine_stack)],
                   !.subroutine_stack = SubSeq(i.subroutine_stack, 1,
                                               Len(i.subroutine_stack) - 1)]

\* the LET branch: value is what evaluate_numeric gave
InterpretLet(i, name, value) ==
    IF value.raised # "none" THEN Raise(i, value.raised)
    ELSE [i EXCEPT !.variable_table = (name :> value.v) @@ i.variable_table,
                   !.statement_index = i.statement_index + 1]

\* the items of a PRINT statement evaluated one after the other: the first
\* exception one of them raises, "none" if none does
RECURSIVE PrintRaises(_, _, _)
PrintRaises(variable_table, printables, k) ==
    IF k > Len(printables) THEN "none"
    ELSE IF printables[k].kind = "str" THEN PrintRaises(variable_table, printables, k + 1)
    ELSE IF evaluate_numeric(variable_table, printables[k]).raised # "none"
    THEN evaluate_numeric(variable_table, printables[k]).raised
    ELSE PrintRaises(variable_table, printables, k + 1)

\* the PRINT branch (the text goes to standard output)
InterpretPrint(i, raised) ==
    IF raised # "none" THEN Raise(i, raised)
    ELSE [i EXCEPT !.statement_index = i.statement_index + 1]

\* Interpreter.interpret
RECURSIVE interpret(_, _)
interpret(i, statement) ==
    CASE statement.kind = "LetStatement" ->
             InterpretLet(i, statement.name,
                          evaluate_numeric(i.variable_table, statement.value))
      [] statement.kind = "GoToStatement" ->
             InterpretGoTo(i, evaluate_numeric(i.variable_table, statement.goto_line_id))
      [] statement.kind = "GoSubStatement" ->
             InterpretGoSub(i, evaluate_numeric(i.variable_table, statement.goto_line_id))
      [] statement.kind = "ReturnStatement" -> InterpretReturn(i)
      [] statement.kind = "PrintStatement" ->
             InterpretPrint(i, PrintRaises(i.variable_table, statement.printables, 1))
      [] statement.kind = "IfStatement" ->
             IF evaluate_boolean(i.variable_table, statement.boolean_expression).raised # "none"
             THEN Raise(i, evaluate_boolean(i.variable_table,
                                            statement.boolean_expression).raised)
             ELSE IF evaluate_boolean(i.variable_table, statement.boolean_expression).v
             THEN interpret(i, statement.then_statement)
             ELSE [i EXCEPT !.statement_index = i.statement_index + 1]
      [] OTHER -> Raise(i, "InterpreterError")

\* Interpreter.current
Current(i) == i.statements[i.statement_index + 1]

(* ---------------- C31: GOSUB and RETURN --------------------------------- *)

\* the node classes, with the fields the interpreter reads
Number(n) == [kind |-> "NumberLiteral", number |-> n]
Variable(name) == [kind |-> "VarRetrieve", name |-> name]
Binary(operator, l, r) == [kind |-> "BinaryOperation", operator |-> operator,
                           left |-> l, right |-> r]
Boolean(operator, l, r) == [operator |-> operator, left |-> l, right |-> r]
Let(id, name, value) == [kind |-> "LetStatement", line_id |-> id, name |-> name,
                         value |-> value]
GoTo(id, target) == [kind |-> "GoToStatement", line_id |-> id, goto_line_id |-> target]
GoSub(id, target) == [kind |-> "GoSubStatement", line_id |-> id, goto_line_id |-> target]
Return(id) == [kind |-> "ReturnStatement", line_id |-> id]
PrintText(id) == [kind |-> "PrintStatement", line_id |-> id,
                  printables |-> <<[kind |-> "str"]>>]
If(id, condition, then) == [kind |-> "IfStatement", line_id |-> id,
                            boolean_expression |-> condition, then_statement |-> then]

\* a condition that holds and one that does not
Holding == Boolean("LESS", Number(1), Number(2))
Failing == Boolean("LESS", Number(2), Number(1))

\* lengths of the generated programs, whose lines are numbered 10, 20, ...
ProgramLengths == {1, 2, 3}

\* the statements line id may be in a generated program of n lines: RETURN,
\* GOSUB and GOTO to every line and to a missing one, the same under IF
\* with a condition that holds or fails, LET and PRINT
Forms(id, n) ==
    {Return(id), Let(id, "A", Number(1)), PrintText(id),
     If(id, Holding, Return(id)), If(id, Failing, Return(id)),
     If(id, Failing, GoSub(id, Number(10))), GoSub(id, Number(5))}
    \cup {GoSub(id, Number(10 * k)) : k \in 1..n}
    \cup {GoTo(id, Number(10 * k)) : k \in 1..n}
    \cup {If(id, Holding, GoSub(id, Number(10 * k))) : k \in 1..n}

\* the generated programs of n lines
RECURSIVE Generated(_, _)
Generated(k, n) ==
    IF k = 0 THEN {<<>>}
    ELSE {Append(p, s) : p \in Generated(k - 1, n), s \in Forms(10 * k, n)}

\* longer programs: the one of the GOSUB example (a counted subroutine
\* called from an IF), calls three deep whose returns unwind in turn, and
\* one whose lines are not in ascending order
Examples ==
    {<<Let(10, "A", Number(2)),
       If(20, Boolean("GREATER", Variable("A"), Number(0)), GoSub(20, Number(50))),
       If(30, Boolean("GREATER", Variable("A"), Number(0)), GoTo(30, Number(20))),
       GoTo(40, Number(70)),
       Let(50, "A", Binary("MINUS", Variable("A"), Number(1))),
       Return(60),
       PrintText(70)>>,
     <<GoSub(10, Number(30)), GoTo(20, Number(70)), GoSub(30, Number(50)),
       Return(40), GoSub(50, Number(60)), Return(60), Return(70)>>,
     <<GoSub(30, Number(10)), PrintText(20), Return(10)>>}

Programs == Examples \cup UNION {Generated(n, n) : n \in ProgramLengths}

\* no call has been made: no GOSUB is outstanding
NoGosubs == [outstanding |-> <<>>, did |-> "none", due |-> None]

InitBasic ==
    /\ EmulatorIdle /\ EncoderIdle /\ VMIdle /\ budget = InterpretCalls
    /\ \E program \in Programs : interpreter = NewInterpreter(program)
    /\ gosubs = NoGosubs

\* the statement interpret() ends up executing: the THEN branch of an IF
\* whose condition holds, none when the condition fails or cannot be evaluated
RECURSIVE Effective(_, _)
Effective(variable_table, statement) ==
    IF statement.kind = "IfStatement"
    THEN IF evaluate_boolean(variable_table, statement.boolean_expression).raised = "none"
            /\ evaluate_boolean(variable_table, statement.boolean_expression).v
         THEN Effective(variable_table, statement.then_statement)
         ELSE [kind |-> "none"]
    ELSE statement

\* the history of calls: a GOSUB that completed is outstanding from the index
\* of its line; a RETURN answers the latest outstanding one, and control is
\* due at the line after it
Called(kind, index, completed) ==
    IF kind = "GoSubStatement" /\ completed
    THEN [outstanding |-> Append(gosubs.outstanding, index), did |-> "gosub", due |-> None]
    ELSE IF kind = "ReturnStatement" /\ gosubs.outstanding # <<>>
    THEN [outstanding |-> SubSeq(gosubs.outstanding, 1, Len(gosubs.outstanding) - 1),
          did |-> "return",
          due |-> gosubs.outstanding[Len(gosubs.outstanding)] + 1]
    ELSE IF kind = "ReturnStatement"
    THEN [outstanding |-> <<>>, did |-> "return", due |-> None]
    ELSE [gosubs EXCEPT !.did = "other", !.due = None]

\* one turn of the loop of run(): self.interpret(self.current)
Interpret ==
    /\ budget > 0
    /\ interpreter.raised = "none"
    /\ interpreter.statement_index < Len(interpreter.statements)
    /\ interpreter' = interpret(interpreter, Current(interpreter))
    /\ gosubs' = Called(Effective(interpreter.variable_table, Current(interpreter)).kind,
                        interpreter.statement_index, interpreter'.raised = "none")
    /\ lastOp' = "interpret" /\ pre' = interpreter
    /\ lastOp2' = lastOp /\ pre2' = pre
    /\ budget' = budget - 1
    /\ UNCHANGED <<machineVars, dmaVars, stackVars, busVars, loop, original_data, rle_data,
                   vm, run>>

SpecBasic == InitBasic /\ [][Interpret]_vars

\* C31: RETURN transfers control to the statement after the most recently
\* executed GOSUB that has not been returned from, also when that GOSUB was
\* the THEN branch of an IF; a RETURN with no GOSUB outstanding raises an
\* InterpreterError and leaves the statement index as it was
C31_Return ==
    (lastOp = "interpret" /\ gosubs.did = "return") =>
        IF gosubs.due # None
        THEN /\ interpreter.raised = "none"
             /\ interpreter.statement_index = gosubs.due
        ELSE /\ interpreter.raised = "InterpreterError"
             /\ interpreter.statement_index = pre.statement_index

\* a RETURN has answered the inner of two outstanding GOSUBs, which was the
\* THEN branch of an IF
C31_Witness ==
    /\ lastOp = "interpret" /\ gosubs.did = "return"
    /\ Len(gosubs.outstanding) = 1
    /\ gosubs.due # gosubs.outstanding[1] + 1
    /\ interpreter.statements[gosubs.due].kind = "IfStatement"
    /\ interpreter.statement_index = gosubs.due

\* a RETURN under an IF has been executed with no GOSUB outstanding
C31_Unmatched ==
    /\ lastOp = "interpret" /\ gosubs.did = "return" /\ gosubs.due = None
    /\ Current(pre).kind = "IfStatement"
    /\ pre.statement_index > 0
    /\ interpreter.raised = "InterpreterError"

\* three calls deep, the returns have unwound all three in turn
C31_Unwound ==
    /\ lastOp = "interpret" /\ gosubs.did = "return"
    /\ gosubs.outstanding = <<>> /\ gosubs.due = 1
    /\ lastOp2 = "interpret" /\ Current(pre2).kind = "ReturnStatement"
    /\ Len(pre2.subroutine_stack) = 2 /\ Len(pre.subroutine_stack) = 1

\* ---------------------------------------------------------------------------
\* Chip8: the virtual machine (src/Chip8/vm.py) and run() (src/Chip8/__main__.py)
\* ---------------------------------------------------------------------------

RAM_SIZE == 4096
SCREEN_WIDTH == 64
SCREEN_HEIGHT == 32
SPRITE_WIDTH == 8

ALLOWED_KEYS ==
    <<"0", "1", "2", "3", "4", "5", "6", "7", "8", "9", "a", "b", "c", "d", "e", "f">>

FONT_SET ==
    <<240, 144, 144, 144, 240,   32,  96,  32,  32, 112,
      240,  16, 240, 128, 240,  240,  16, 240,  16, 240,
      144, 144, 240,  16,  16,  240, 128, 240,  16, 240,
      240, 128, 240, 144, 240,  240,  16,  32,  64,  64,
      240, 144, 240, 144, 240,  240, 144, 240,  16, 240,
      240, 144, 240, 144, 144,  224, 144, 224, 144, 224,
      240, 128, 128, 128, 240,  224, 144, 144, 144, 224,
      240, 128, 240, 128, 240,  240, 128, 240, 128, 128>>

\* ALLOWED_KEYS.index(key_name), for a name the list holds
KeyIndex(key_name) == (CHOOSE k \in 1..Len(ALLOWED_KEYS) : ALLOWED_KEYS[k] = key_name) - 1

\* key_name in ALLOWED_KEYS
Allowed(key_name) == \E k \in 1..Len(ALLOWED_KEYS) : ALLOWED_KEYS[k] = key_name

\* concat_nibbles(n1, n2, n3)
concat_nibbles(n1, n2, n3) == ((0 * 16 + n1) * 16 + n2) * 16 + n3

\* VM.__init__: ram holds the font set from 0 and the program from 512, the cells
\* that hold 0 left out
NewVM(program_data) ==
    [v |-> [r \in 0..15 |-> 0],
     i |-> 0,
     pc |-> 512,
     ram |-> [a \in {k \in 0..(Len(FONT_SET) - 1) : FONT_SET[k + 1] # 0}
                    \cup {512 + k : k \in {j \in 0..(Len(program_data) - 1) :
                                               program_data[j + 1] # 0}} |->
                 IF a < 512 THEN FONT_SET[a + 1] ELSE program_data[a - 512 + 1]],
     stack |-> <<>>,
     display_buffer |-> {},
     needs_redraw |-> FALSE,
     delay_timer |-> 0,
     sound_timer |-> 0,
     keys |-> [k \in 0..15 |-> FALSE],
     raised |-> "none"]

\* VM.decrement_timers
decrement_timers(m) ==
    [m EXCEPT !.delay_timer = IF @ > 0 THEN @ - 1 ELSE @,
              !.sound_timer = IF @ > 0 THEN @ - 1 ELSE @]

\* VM.play_sound
play_sound(m) == m.sound_timer > 0

\* the pixels on the screen that a sprite row at ram[address] sets, drawn at (x, y + row)
RowPixels(m, address, x, py) ==
    {<<x + col, py>> : col \in {c \in 0..(SPRITE_WIDTH - 1) :
                                   /\ x + c < SCREEN_WIDTH /\ py < SCREEN_HEIGHT
                                   /\ Bit(ArrGet(m.ram, address), 7 - c) = 1}}

\* the rows of a sprite that ram holds: reading past the end of ram raises
SpriteRows(m, height) == {row \in 0..(height - 1) : m.i + row < RAM_SIZE}

\* the pixels a sprite sets, over the rows that can be read
SpritePixels(m, x, y, height) ==
    UNION {RowPixels(m, m.i + row, x, y + row) : row \in SpriteRows(m, height)}

\* VM.draw_sprite: the pixels are XORed into display_buffer (the set of white
\* pixels), v[0xF] tells whether a white pixel turned black
draw_sprite(m, x, y, height) ==
    LET drawn == SpritePixels(m, x, y, height)
        buffer == (m.display_buffer \ drawn) \cup (drawn \ m.display_buffer)
    IN  IF SpriteRows(m, height) # 0..(height - 1)
        THEN [m EXCEPT !.display_buffer = buffer, !.raised = "IndexError"]
        ELSE [m EXCEPT !.display_buffer = buffer,
                       !.v[15] = IF drawn \cap m.display_buffer # {} THEN 1 ELSE 0]

\* the ways an instruction ends: the next one in line, a jump, an exception
Stay(m) == [vm |-> m, jumped |-> FALSE]
GoneTo(m, address) == [vm |-> [m EXCEPT !.pc = address], jumped |-> TRUE]
Fails(m, exception) == [vm |-> [m EXCEPT !.raised = exception], jumped |-> TRUE]

\* the conditional skips: pc += 4 and jumped when the condition holds
SkipIf(m, condition) == IF condition THEN GoneTo(m, m.pc + 4) ELSE Stay(m)

\* opcodes 8XY0 to 8XYE: array('B') raises OverflowError for a value outside
\* 0..255, which the code catches to set the flag the other way
Exec8(m, x, y, fourth) ==
    LET v == m.v IN
    IF fourth = 0 THEN Stay([m EXCEPT !.v[x] = v[y]])
    ELSE IF fourth = 1 THEN Stay([m EXCEPT !.v[x] = Or8(v[x], v[y])])
    ELSE IF fourth = 2 THEN Stay([m EXCEPT !.v[x] = And8(v[x], v[y])])
    ELSE IF fourth = 3 THEN Stay([m EXCEPT !.v[x] = Xor8(v[x], v[y])])
    ELSE IF fourth = 4
    THEN Stay([m EXCEPT !.v = [[v EXCEPT ![x] = (v[x] + v[y]) % 256]
                                  EXCEPT ![15] = IF v[x] + v[y] > 255 THEN 1 ELSE 0]])
    ELSE IF fourth = 5
    THEN Stay([m EXCEPT !.v = [[v EXCEPT ![x] = (v[x] - v[y]) % 256]
                                  EXCEPT ![15] = IF v[x] - v[y] < 0 THEN 0 ELSE 1]])
    ELSE IF fourth = 6
    THEN LET flagged == [v EXCEPT ![15] = v[x] % 2]
         IN  Stay([m EXCEPT !.v = [flagged EXCEPT ![x] = flagged[x] \div 2]])
    ELSE IF fourth = 7
    THEN Stay([m EXCEPT !.v = [[v EXCEPT ![x] = (v[y] - v[x]) % 256]
                                  EXCEPT ![15] = IF v[y] - v[x] < 0 THEN 0 ELSE 1]])
    ELSE IF fourth = 14
    THEN LET flagged == [v EXCEPT ![15] = v[x] \div 128]
         IN  Stay([m EXCEPT !.v = [flagged EXCEPT ![x] = (flagged[x] * 2) % 256]])
    ELSE Stay(m)

\* ram after ram[i + r] = cells[r] for r = 0, 1, ... up to the first index
\* past the end of ram
StoreFrom(m, cells) ==
    [a \in ((DOMAIN m.ram) \ {m.i + r : r \in DOMAIN cells})
           \cup {m.i + r : r \in {k \in DOMAIN cells : m.i + k < RAM_SIZE /\ cells[k] # 0}} |->
        IF a - m.i \in DOMAIN cells THEN cells[a - m.i] ELSE m.ram[a]]

\* the stores of FX33 and FX55: IndexError when one of them is past the end of ram
Store(m, cells) ==
    IF \E r \in DOMAIN cells : m.i + r >= RAM_SIZE
    THEN Fails([m EXCEPT !.ram = StoreFrom(m, cells)], "IndexError")
    ELSE Stay([m EXCEPT !.ram = StoreFrom(m, cells)])

\* opcodes FX07 to FX65 but FX0A
ExecF(m, x, last2) ==
    LET v == m.v IN
    IF last2 = 7 THEN Stay([m EXCEPT !.v[x] = m.delay_timer])
    ELSE IF last2 = 21 THEN Stay([m EXCEPT !.delay_timer = v[x]])
    ELSE IF last2 = 24 THEN Stay([m EXCEPT !.sound_timer = v[x]])
    ELSE IF last2 = 30 THEN Stay([m EXCEPT !.i = m.i + v[x]])
    ELSE IF last2 = 41 THEN Stay([m EXCEPT !.i = v[x] * 5])
    ELSE IF last2 = 51
    THEN Store(m, [r \in 0..2 |-> IF r = 0 THEN v[x] \div 100
                                  ELSE IF r = 1 THEN (v[x] % 100) \div 10
                                  ELSE (v[x] % 100) % 10])
    ELSE IF last2 = 85 THEN Store(m, [r \in 0..x |-> v[r]])
    ELSE IF last2 = 101
    THEN LET loaded == [r \in 0..15 |-> IF r <= x /\ m.i + r < RAM_SIZE
                                        THEN ArrGet(m.ram, m.i + r) ELSE v[r]]
         IN  IF m.i + x >= RAM_SIZE THEN Fails([m EXCEPT !.v = loaded], "IndexError")
             ELSE Stay([m EXCEPT !.v = loaded])
    ELSE Stay(m)

\* the match statement of VM.step but its FX0A case; random is what randint(0, 255) returns
Exec(m, first, second, third, fourth, last2, random) ==
    LET nnn == concat_nibbles(second, third, fourth)
        x == second
        y == third
        v == m.v
    IN
    IF first = 0 /\ second = 0 /\ third = 14 /\ fourth = 0
    THEN Stay([m EXCEPT !.display_buffer = {}, !.needs_redraw = TRUE])
    ELSE IF first = 0 /\ second = 0 /\ third = 14 /\ fourth = 14
    THEN IF m.stack = <<>> THEN Fails(m, "IndexError")
         ELSE GoneTo([m EXCEPT !.stack = SubSeq(@, 1, Len(@) - 1)], m.stack[Len(m.stack)])
    ELSE IF first = 0
    THEN GoneTo([m EXCEPT !.delay_timer = 0, !.sound_timer = 0,
                          !.v = [r \in 0..15 |-> 0], !.i = 0,
                          !.display_buffer = {}, !.needs_redraw = TRUE], nnn)
    ELSE IF first = 1 THEN GoneTo(m, nnn)
    ELSE IF first = 2 THEN GoneTo([m EXCEPT !.stack = Append(@, m.pc + 2)], nnn)
    ELSE IF first = 3 THEN SkipIf(m, v[x] = last2)
    ELSE IF first = 4 THEN SkipIf(m, v[x] # last2)
    ELSE IF first = 5 THEN SkipIf(m, v[x] = v[y])
    ELSE IF first = 6 THEN Stay([m EXCEPT !.v[x] = last2])
    ELSE IF first = 7 THEN Stay([m EXCEPT !.v[x] = (v[x] + last2) % 256])
    ELSE IF first = 8 THEN Exec8(m, x, y, fourth)
    ELSE IF first = 9 /\ fourth = 0 THEN SkipIf(m, v[x] # v[y])
    ELSE IF first = 10 THEN Stay([m EXCEPT !.i = nnn])
    ELSE IF first = 11 THEN GoneTo(m, nnn + v[0])
    ELSE IF first = 12 THEN Stay([m EXCEPT !.v[x] = And8(last2, random)])
    ELSE IF first = 13
    THEN LET drawn == draw_sprite(m, v[x], v[y], fourth)
         IN  IF drawn.raised # "none" THEN Fails(drawn, drawn.raised)
             ELSE Stay([drawn EXCEPT !.needs_redraw = TRUE])
    ELSE IF first = 14 /\ last2 \in {158, 161}
    THEN IF v[x] > 15 THEN Fails(m, "IndexError")
         ELSE SkipIf(m, m.keys[v[x]] = (last2 = 158))
    ELSE IF first = 15 THEN ExecF(m, x, last2)
    ELSE Stay(m)

\* the end of VM.step: if not jumped: self.pc += 2
Advance(r) == IF r.jumped THEN r.vm ELSE [r.vm EXCEPT !.pc = @ + 2]

\* FX0A: the register its case waits to fill, None for any other opcode and
\* when the opcode cannot be read
KeyWaitAt(m) ==
    IF m.pc + 1 < RAM_SIZE /\ ArrGet(m.ram, m.pc) \div 16 = 15 /\ ArrGet(m.ram, m.pc + 1) = 10
    THEN ArrGet(m.ram, m.pc) % 16 ELSE None

\* VM.step for every opcode but FX0A, and for FX0A up to its first
\* pygame.event.wait(): the opcode is read and needs_redraw is cleared
step(m, random) ==
    IF m.pc + 1 >= RAM_SIZE THEN [m EXCEPT !.raised = "IndexError"]
    ELSE LET first2 == ArrGet(m.ram, m.pc)
             last2 == ArrGet(m.ram, m.pc + 1)
             cleared == [m EXCEPT !.needs_redraw = FALSE]
         IN  IF KeyWaitAt(m) # None THEN cleared
             ELSE Advance(Exec(cleared, first2 \div 16, first2 % 16,
                               last2 \div 16, last2 % 16, last2, random))

\* one turn of the while loop of the FX0A case, on the event pygame.event.wait()
\* returned, with the pc += 2 that follows its break: where run() is afterwards
wait_key_AnyAllowedKey(m, x, event) ==
    IF event.type = "QUIT" THEN [vm |-> m, at |-> "exit"]
    ELSE IF event.type \in {"KEYDOWN", "KEYUP"} /\ Allowed(event.key)
    THEN [vm |-> Advance(Stay([m EXCEPT !.v[x] = KeyIndex(event.key)])), at |-> "events"]
    ELSE [vm |-> m, at |-> "wait"]

wait_key(m, x, event) ==
    IF event.type = "QUIT" THEN [vm |-> m, at |-> "exit"]
    ELSE IF event.type = "KEYDOWN" /\ Allowed(event.key)
    THEN [vm |-> Advance(Stay([m EXCEPT !.v[x] = KeyIndex(event.key)])), at |-> "events"]
    ELSE [vm |-> m, at |-> "wait"]

\* the for loop of run() over pygame.event.get(): the keys afterwards, and
\* whether a QUIT event ended the program
RECURSIVE HandleEvents(_, _)
HandleEvents(keys, events) ==
    IF events = <<>> THEN [keys |-> keys, exit |-> FALSE]
    ELSE LET event == Head(events) IN
         IF event.type \in {"KEYDOWN", "KEYUP"}
         THEN HandleEvents(IF Allowed(event.key)
                           THEN [keys EXCEPT ![KeyIndex(event.key)] = (event.type = "KEYDOWN")]
                           ELSE keys,
                           Tail(events))
         ELSE IF event.type = "QUIT" THEN [keys |-> keys, exit |-> TRUE]
         ELSE HandleEvents(keys, Tail(events))

\* ---- the program under run(), and what the user does ----

KeyCalls == 10

\* names pygame.key.name gives: four allowed keys, three others
KeyNames == {"0", "7", "a", "f", "g", "space", "[1]"}
NoKey == "none"
Events ==
    [type : {"KEYDOWN", "KEYUP"}, key : KeyNames]
        \cup [type : {"QUIT", "MOUSEMOTION"}, key : {NoKey}]

\* what pygame.event.get() may return
EventQueues ==
    {<<>>,
     <<[type |-> "KEYDOWN", key |-> "7"]>>,
     <<[type |-> "KEYDOWN", key |-> "a"], [type |-> "KEYUP", key |-> "a"]>>,
     <<[type |-> "KEYDOWN", key |-> "g"], [type |-> "MOUSEMOTION", key |-> NoKey]>>,
     <<[type |-> "KEYUP", key |-> "7"], [type |-> "QUIT", key |-> NoKey]>>}

\* what randint(0, 255) may return
Randoms == {0, 170, 255}

\* programs that wait for a key: what runs before FX0A, the register X, what runs after
Preludes ==
    {<<>>,
     <<99, 42>>,                 \* v[3] = 42
     <<96, 5, 240, 21, 240, 24>>,  \* v[0] = 5, delay_timer = v[0], sound_timer = v[0]
     <<162, 52, 34, 6, 0, 0>>}   \* i = 0x234, call 0x206
WaitRegisters == {0, 3, 15}
Epilogues ==
    {<<18, 0>>,                  \* jump to 0x200
     <<240, 10>>,                \* wait for a key into v[0]
     <<227, 158, 0, 224>>}       \* skip if key v[3] is down, clear the screen
\* programs that use the other opcodes before they wait
KeyExamples ==
    {<<96, 255, 97, 2, 128, 20, 255, 10, 240, 51>>,  \* v[0] = 255 + 2 with carry, wait, BCD
     <<160, 5, 208, 21, 241, 10, 241, 85>>,          \* i = 5, draw 5 rows, wait, dump v[0..1]
     <<194, 15, 242, 10, 50, 0, 0, 238>>}            \* v[2] = random & 15, wait, skip, return
KeyPrograms ==
    KeyExamples \cup
    {prelude \o <<240 + x, 10>> \o epilogue :
        prelude \in Preludes, x \in WaitRegisters, epilogue \in Epilogues}

NoEvent == [type |-> "none", key |-> NoKey]
NewRun ==
    [at |-> "step", x |-> None, event |-> NoEvent, currently_playing_sound |-> FALSE,
     entered |-> <<>>]

InitChip8 ==
    /\ EmulatorIdle /\ EncoderIdle /\ InterpreterIdle /\ budget = KeyCalls
    /\ \E program_data \in KeyPrograms : vm = NewVM(program_data)
    /\ run = NewRun

\* run(): vm.step(), up to its return or to the first pygame.event.wait() of FX0A
RunStep ==
    /\ budget > 0
    /\ run.at = "step"
    /\ \E random \in Randoms :
        /\ vm' = step(vm, random)
        /\ run' = IF vm'.raised # "none" THEN [run EXCEPT !.at = "exit"]
                  ELSE IF KeyWaitAt(vm) # None
                  THEN [run EXCEPT !.at = "wait", !.x = KeyWaitAt(vm), !.entered = vm]
                  ELSE [run EXCEPT !.at = "events"]
    /\ lastOp' = "step" /\ pre' = vm
    /\ lastOp2' = lastOp /\ pre2' = pre
    /\ budget' = budget - 1
    /\ UNCHANGED <<machineVars, dmaVars, stackVars, busVars, loop, original_data, rle_data,
                   interpreter, gosubs>>

\* vm.step() inside FX0A: pygame.event.wait() returns an event
WaitEvent ==
    /\ budget > 0
    /\ run.at = "wait"
    /\ \E event \in Events :
        LET after == wait_key(vm, run.x, event) IN
        /\ vm' = after.vm
        /\ run' = [run EXCEPT !.at = after.at, !.event = event]
    /\ lastOp' = "wait_key" /\ pre' = vm
    /\ lastOp2' = lastOp /\ pre2' = pre
    /\ budget' = budget - 1
    /\ UNCHANGED <<machineVars, dmaVars, stackVars, busVars, loop, original_data, rle_data,
                   interpreter, gosubs>>

\* run() after vm.step(): the keyboard events, the sound, the timers; late tells
\* whether 1/60 of a second has passed since the timers were last decremented
RunRest ==
    /\ budget > 0
    /\ run.at = "events"
    /\ \E events \in EventQueues, late \in BOOLEAN :
        LET handled == HandleEvents(vm.keys, events) IN
        IF handled.exit
        THEN /\ run' = [run EXCEPT !.at = "exit"]
             /\ vm' = [vm EXCEPT !.keys = handled.keys]
        ELSE /\ vm' = IF late THEN decrement_timers([vm EXCEPT !.keys = handled.keys])
                      ELSE [vm EXCEPT !.keys = handled.keys]
             /\ run' = [run EXCEPT !.at = "step",
                                   !.currently_playing_sound = play_sound(vm)]
    /\ lastOp' = "events" /\ pre' = vm
    /\ lastOp2' = lastOp /\ pre2' = pre
    /\ budget' = budget - 1
    /\ UNCHANGED <<machineVars, dmaVars, stackVars, busVars, loop, original_data, rle_data,
                   interpreter, gosubs>>

SpecChip8 == InitChip8 /\ [][RunStep \/ WaitEvent \/ RunRest]_vars

\* everything of the VM but needs_redraw, which step() clears before it decodes
Registers(m) == [m EXCEPT !.needs_redraw = FALSE]

\* C32: while FX0A waits, the PC and every register of the VM are as they were
\* when step() was called, and the VM is still at that FX0A; an event other
\* than a key-down of one of the 16 allowed keys leaves it waiting (QUIT ends
\* the program); a key-down of an allowed key stores the key's index, 0 to 15,
\* in v[x], moves the PC on by 2, changes nothing else, and ends the wait
C32_KeyWait ==
    /\ (run # <<>> /\ run.at = "wait") =>
          /\ Registers(vm) = Registers(run.entered)
          /\ KeyWaitAt(vm) = run.x
    /\ lastOp = "wait_key" =>
          LET entered == run.entered
              event == run.event
          IN  IF event.type = "KEYDOWN" /\ Allowed(event.key)
              THEN /\ run.at = "events"
                   /\ KeyIndex(event.key) \in 0..15
                   /\ vm = [Registers(entered) EXCEPT !.v[run.x] = KeyIndex(event.key),
                                                      !.pc = entered.pc + 2]
              ELSE /\ run.at = IF event.type = "QUIT" THEN "exit" ELSE "wait"
                   /\ Registers(vm) = Registers(entered)

\* an allowed key ended a wait that events of other kinds had not ended
C32_Witness ==
    /\ lastOp = "wait_key" /\ lastOp2 = "wait_key"
    /\ run.at = "events"
    /\ run.event = [type |-> "KEYDOWN", key |-> "f"]
    /\ vm.v[run.x] = 15 /\ pre.v[run.x] # 15

\* the wait is still on after an event
C32_Waiting == lastOp = "wait_key" /\ run.at = "wait" /\ run.event.type = "KEYDOWN"

====
